---------------------------- MODULE Spec2Model ----------------------------
(***************************************************************************)
(* A model of the istio-k8s charm: the reconcile loop of IstioCoreCharm    *)
(* (src/src/charm.py), the istioctl wrapper (src/src/istioctl.py) and the  *)
(* relation libraries under src/lib/charms/istio_k8s/v0.                   *)
(*                                                                         *)
(* Python values are represented as follows.                               *)
(*   - a databag (Dict[str, str]) is a function from key strings to value  *)
(*     strings; the empty databag is EmptyBag;                             *)
(*   - Optional[T] is a sequence: <<>> is None, <<v>> is a value v;        *)
(*   - an ordered dict is a sequence of <<key, value>> pairs with distinct *)
(*     keys, in insertion order;                                           *)
(*   - a Kubernetes resource is a record [kind, name, namespace, spec,     *)
(*     labels]; its identity on the cluster is (kind, namespace, name).    *)
(***************************************************************************)
EXTENDS Integers, Sequences, FiniteSets, TLC

(***************************************************************************)
(* Bounds of the model.                                                    *)
(***************************************************************************)
NumUnits == 2          \* units of the istio-k8s application
MaxPlanned == 2        \* largest planned unit count
MaxIngressRels == 1    \* istio-ingress-config relation instances
MaxMetadataRels == 1   \* istio-metadata relation instances
MaxRecvRels == 3       \* relation instances on a Receiver / requirer endpoint
MaxSendRels == 2       \* relation instances on a Sender endpoint
MaxProvidedRels == 2   \* relation instances on an IngressConfigProvider endpoint
MaxAuthzRels == 3      \* istio-ingress-config relations of a call of _get_istioctl

Units == 1..NumUnits
IngressIds == 1..MaxIngressRels
MetadataIds == 1..MaxMetadataRels

(***************************************************************************)
(* Python values.                                                          *)
(***************************************************************************)
None == <<>>
Some(v) == <<v>>
IsNone(o) == o = <<>>
Value(o) == o[1]

EmptyBag == [k \in {} |-> ""]

\* dict.update(data) on a databag: keys of data are written, other keys stay.
Update(bag, data) ==
    [k \in (DOMAIN bag) \cup (DOMAIN data) |->
        IF k \in DOMAIN data THEN data[k] ELSE bag[k]]

\* The elements of a sequence, and the indices of a predicate-selected part.
Range(s) == {s[i] : i \in DOMAIN s}

RECURSIVE SetToSeq(_)
\* The elements of a finite set of integers as an ascending sequence.
SetToSeq(S) ==
    IF S = {} THEN <<>>
    ELSE LET m == CHOOSE x \in S : \A y \in S : x <= y
         IN <<m>> \o SetToSeq(S \ {m})

(***************************************************************************)
(* Names fixed by the deployment.                                          *)
(***************************************************************************)
AppName == "istio-k8s"
ModelName == "istio-system"
IngressAppName(i) == "ingress" \o ToString(i)


(***************************************************************************)
(* lib/charms/istio_k8s/v0/istio_ingress_config.py                         *)
(***************************************************************************)
FAKE_EXT_AUTHZ_SERVICE_NAME == "fake_host"
FAKE_EXT_AUTHZ_PORT == "5432"

\* int(port) succeeds: the port strings of the model that are decimal numbers.
ConvertibleToInt(port) == port \in {"8080", "5432"}

\* ProviderIngressConfigData.model_validate(raw): both fields are optional,
\* unknown keys are ignored, and the port validator rejects a port that int()
\* cannot convert.  The result is None when validation raises.
ProviderIngressConfigData(raw) ==
    IF "ext_authz_port" \in DOMAIN raw /\ ~ConvertibleToInt(raw["ext_authz_port"])
    THEN None
    ELSE Some([ext_authz_service_name |->
                   IF "ext_authz_service_name" \in DOMAIN raw
                   THEN Some(raw["ext_authz_service_name"]) ELSE None,
               ext_authz_port |->
                   IF "ext_authz_port" \in DOMAIN raw
                   THEN Some(raw["ext_authz_port"]) ELSE None])

\* IngressConfigRequirer.get_provider_ext_authz_info(relation)
get_provider_ext_authz_info(relation) ==
    IF relation.remote = EmptyBag THEN None
    ELSE ProviderIngressConfigData(relation.remote)

\* IngressConfigRequirer.is_fake_authz_config(relation)
is_fake_authz_config(relation) ==
    LET provider_info == get_provider_ext_authz_info(relation)
    IN  /\ ~IsNone(provider_info)
        /\ Value(provider_info).ext_authz_service_name = Some(FAKE_EXT_AUTHZ_SERVICE_NAME)
        /\ Value(provider_info).ext_authz_port = Some(FAKE_EXT_AUTHZ_PORT)

\* An is_ready that is content with a databag that validates.
is_ready_when_valid(relation) ==
    ~IsNone(get_provider_ext_authz_info(relation))

\* IngressConfigRequirer.is_ready(relation)
is_ready(relation) ==
    LET provider_info == get_provider_ext_authz_info(relation)
    IN  /\ ~IsNone(provider_info)
        /\ ~IsNone(Value(provider_info).ext_authz_service_name)
        /\ ~IsNone(Value(provider_info).ext_authz_port)

\* A publish that makes the name differ from the one already in the databag.
publish_ext_authz_provider_name_renaming(relation, unique_name) ==
    [relation EXCEPT !.local =
        Update(@, [k \in {"ext_authz_provider_name"} |->
                      IF k \in DOMAIN relation.local
                      THEN relation.local[k] \o "-new" ELSE unique_name])]

\* IngressConfigRequirer.publish_ext_authz_provider_name(relation, unique_name):
\* the dump of RequirerIngressConfigData holds the one non-default field.
publish_ext_authz_provider_name(relation, unique_name) ==
    [relation EXCEPT !.local =
        Update(@, [k \in {"ext_authz_provider_name"} |-> unique_name])]

\* ProviderIngressConfigData(...).model_dump(exclude_defaults=True): a field
\* that is None, its default, is left out.
ProviderIngressConfigData_dump(ext_authz_service_name, ext_authz_port) ==
    [k \in (IF IsNone(ext_authz_service_name) THEN {} ELSE {"ext_authz_service_name"})
           \cup (IF IsNone(ext_authz_port) THEN {} ELSE {"ext_authz_port"}) |->
        IF k = "ext_authz_service_name"
        THEN Value(ext_authz_service_name) ELSE Value(ext_authz_port)]

\* IngressConfigProvider.publish(ext_authz_service_name, ext_authz_port) over
\* the local application databags of the relation instances: the validator
\* of the port raises before anything is written, else every databag is
\* updated with the dump.
IngressConfigProvider_publish(rels, ext_authz_service_name, ext_authz_port) ==
    IF ~IsNone(ext_authz_port) /\ ~ConvertibleToInt(Value(ext_authz_port))
    THEN rels
    ELSE LET data == ProviderIngressConfigData_dump(ext_authz_service_name,
                                                    ext_authz_port)
         IN  [i \in DOMAIN rels |-> Update(rels[i], data)]

(***************************************************************************)
(* lib/charms/istio_k8s/v0/istio_metadata.py                               *)
(***************************************************************************)
\* IstioMetadataAppData(root_namespace=...).model_dump(...)
IstioMetadataAppData_dump(root_namespace) ==
    [k \in {"root_namespace"} |-> root_namespace]

\* IstioMetadataProvider.publish(root_namespace) over the relation instances
\* of the endpoint: a relation is [live, local].
IstioMetadataProvider_publish(relations, root_namespace) ==
    [i \in DOMAIN relations |->
        IF relations[i].live
        THEN [relations[i] EXCEPT
                 !.local = Update(@, IstioMetadataAppData_dump(root_namespace))]
        ELSE relations[i]]

\* The outcome of a call: the value it returns or the exception it raises.
Returned(v) == [raised |-> "", value |-> v]
Raised(exception) == [raised |-> exception, value |-> None]

\* IstioMetadataAppData.model_validate(raw): root_namespace is required.
IstioMetadataAppData_validate(raw) ==
    IF "root_namespace" \in DOMAIN raw
    THEN Returned([schema |-> "IstioMetadataAppData",
                   root_namespace |-> raw["root_namespace"]])
    ELSE Raised("ValidationError")

\* A get_data that takes a databag with content for one without.
IstioMetadataRequirer_get_data_inverted(rels) ==
    IF Len(rels) = 0 THEN Returned(None)
    ELSE IF Len(rels) > 1 THEN Raised("ValueError")
    ELSE LET raw_data_dict == rels[1]
             parsed == IstioMetadataAppData_validate(raw_data_dict)
         IN  IF raw_data_dict # EmptyBag THEN Returned(None)
             ELSE IF parsed.raised # "" THEN parsed
             ELSE Returned(Some(parsed.value))

\* IstioMetadataRequirer.get_data over the remote application databags of
\* the relation instances of the endpoint, in the order of self.relations.
IstioMetadataRequirer_get_data(rels) ==
    IF Len(rels) = 0 THEN Returned(None)
    ELSE IF Len(rels) > 1 THEN Raised("ValueError")
    ELSE LET raw_data_dict == rels[1]
             parsed == IstioMetadataAppData_validate(raw_data_dict)
         IN  IF raw_data_dict = EmptyBag THEN Returned(None)
             ELSE IF parsed.raised # "" THEN parsed
             ELSE Returned(Some(parsed.value))

(***************************************************************************)
(* lib/charms/istio_k8s/v0/istio_info.py                                   *)
(***************************************************************************)
\* IstioInfoAppData(**raw_data): root_namespace is required.
IstioInfoAppData(raw_data) ==
    IF "root_namespace" \in DOMAIN raw_data
    THEN Returned([schema |-> "IstioInfoAppData",
                   root_namespace |-> raw_data["root_namespace"]])
    ELSE Raised("ValidationError")

\* What Sender.send_data leaves in a databag for IstioInfoAppData(root_namespace).
IstioInfoAppData_dump(root_namespace) ==
    [k \in {"root_namespace"} |-> root_namespace]

\* A get_data that reads the first relation without counting them.
Receiver_get_data_first_relation(rels) ==
    IF Len(rels) = 0 THEN Returned(None)
    ELSE LET raw_data == rels[1]
             parsed == IstioInfoAppData(raw_data)
         IN  IF raw_data = EmptyBag THEN Returned(None)
             ELSE IF parsed.raised # "" THEN parsed
             ELSE Returned(Some(parsed.value))

\* Receiver.get_data with the schema of IstioInfoRequirer.
Receiver_get_data(rels) ==
    IF Len(rels) = 0 THEN Returned(None)
    ELSE IF Len(rels) > 1 THEN Raised("ValueError")
    ELSE LET raw_data == rels[1]
             parsed == IstioInfoAppData(raw_data)
         IN  IF raw_data = EmptyBag THEN Returned(None)
             ELSE IF parsed.raised # "" THEN parsed
             ELSE Returned(Some(parsed.value))

RECURSIVE get_data_from_all_loop(_, _, _)
\* The loop of get_data_from_all_relations from the i-th relation on, with
\* the list as filled so far.
get_data_from_all_loop(rels, i, info_list) ==
    IF i > Len(rels) THEN Returned(info_list)
    ELSE LET data_dict == rels[i]
             parsed == IstioInfoAppData(data_dict)
         IN  IF data_dict = EmptyBag
             THEN get_data_from_all_loop(rels, i + 1, info_list)
             ELSE IF parsed.raised # "" THEN parsed
             ELSE get_data_from_all_loop(
                      rels, i + 1, [info_list EXCEPT ![i] = Some(parsed.value)])

RECURSIVE Compact(_)
Compact(list) ==
    IF list = <<>> THEN <<>>
    ELSE IF Head(list) = None THEN Compact(Tail(list))
         ELSE <<Head(list)>> \o Compact(Tail(list))

\* A get_data_from_all_relations that leaves out the relations without data.
Receiver_get_data_from_all_relations_compacting(rels) ==
    LET all == get_data_from_all_loop(rels, 1, [i \in DOMAIN rels |-> None])
    IN  IF all.raised # "" THEN all ELSE Returned(Compact(all.value))

\* Receiver.get_data_from_all_relations with the schema of IstioInfoRequirer.
Receiver_get_data_from_all_relations(rels) ==
    get_data_from_all_loop(rels, 1, [i \in DOMAIN rels |-> None])

\* A Receiver that notifies of the relations that go away as well.
Receiver_observed_with_broken(refresh_event) ==
    refresh_event \o <<"relation_changed", "relation_broken">>

\* Receiver.__init__: the events observed with on_relation_changed, in the
\* order they are registered.  refresh_event is the list the constructor
\* normalises its argument to.
Receiver_observed(refresh_event) == refresh_event \o <<"relation_changed">>

\* Receiver.on_relation_changed: data_changed is emitted without arguments.
Receiver_on_relation_changed == <<[event |-> "data_changed", payload |-> EmptyBag]>>

RECURSIVE Receiver_emit(_, _)
\* The framework delivers event to the observers registered for it: what the
\* Receiver emits in turn.
Receiver_emit(observed, event) ==
    IF observed = <<>> THEN <<>>
    ELSE (IF Head(observed) = event THEN Receiver_on_relation_changed ELSE <<>>)
             \o Receiver_emit(Tail(observed), event)

\* IstioInfoProvider.__init__: the data the Sender is constructed with.
IstioInfoProvider_data(root_namespace) ==
    [schema |-> "IstioInfoAppData", root_namespace |-> root_namespace]

\* IstioInfoAppData.load(databag): DataValidationError when the databag does
\* not validate.
IstioInfoAppData_load(databag) ==
    IF IstioInfoAppData(databag).raised # ""
    THEN Raised("DataValidationError")
    ELSE IstioInfoAppData(databag)

\* A Sender that does not observe leader_elected.
Sender_observed_without_leader_elected(refresh_event) ==
    refresh_event \o <<"relation_joined">>

\* Sender.__init__: the events observed with handle_send_data_event.
Sender_observed(refresh_event) ==
    refresh_event \o <<"relation_joined", "leader_elected">>

\* A send_data that stops after the first relation instance.
Sender_send_data_first_relation(rels, data) ==
    [i \in DOMAIN rels |->
        IF i = 1 THEN IstioInfoAppData_dump(data.root_namespace) ELSE rels[i]]

\* Sender.send_data over the local application databags of the relation
\* instances of the endpoint: dump(databag) leaves the serialization of the
\* data in each.
Sender_send_data(rels, data) ==
    [i \in DOMAIN rels |-> IstioInfoAppData_dump(data.root_namespace)]

\* A handler that sends whatever unit it runs on.
handle_send_data_event_on_any_unit(rels, data, is_leader) ==
    Sender_send_data(rels, data)

\* Sender.handle_send_data_event
handle_send_data_event(rels, data, is_leader) ==
    IF is_leader THEN Sender_send_data(rels, data) ELSE rels

RECURSIVE Sender_emit(_, _, _, _, _)
\* The framework delivers event to the observers registered for it, each of
\* which runs handle_send_data_event.
Sender_emit(observed, event, rels, data, is_leader) ==
    IF observed = <<>> THEN rels
    ELSE Sender_emit(Tail(observed), event,
                     IF Head(observed) = event
                     THEN handle_send_data_event(rels, data, is_leader) ELSE rels,
                     data, is_leader)

\* An is_ready that is content with local data that validates.
is_relation_data_up_to_date_when_valid(rels, data) ==
    \A i \in DOMAIN rels : IstioInfoAppData_load(rels[i]).raised = ""

RECURSIVE is_relation_data_up_to_date_loop(_, _, _)
\* The loop of _is_relation_data_up_to_date from the i-th relation on.
is_relation_data_up_to_date_loop(rels, i, expected_app_data) ==
    IF i > Len(rels) THEN TRUE
    ELSE LET app_data == IstioInfoAppData_load(rels[i])
         IN  IF app_data.raised # "" THEN FALSE
             ELSE IF app_data.value # expected_app_data THEN FALSE
             ELSE is_relation_data_up_to_date_loop(rels, i + 1, expected_app_data)

\* Sender._is_relation_data_up_to_date
is_relation_data_up_to_date(rels, data) ==
    is_relation_data_up_to_date_loop(rels, 1, data)

\* Sender.is_ready
Sender_is_ready(rels, data) == is_relation_data_up_to_date(rels, data)

(***************************************************************************)
(* Ordered dicts and nested configuration values.                          *)
(***************************************************************************)
DictKeys(d) == {d[i][1] : i \in DOMAIN d}

\* d[k] = v on an ordered dict: an existing key keeps its position.
DictSet(d, k, v) ==
    IF k \in DictKeys(d)
    THEN [i \in DOMAIN d |-> IF d[i][1] = k THEN <<k, v>> ELSE d[i]]
    ELSE Append(d, <<k, v>>)

RECURSIVE DictUpdate(_, _)
\* d.update(e): the entries of e are set one after the other; when e repeats
\* no key and shares none with d, that is d followed by e.
DictUpdate(d, e) ==
    IF e = <<>> THEN d
    ELSE IF DictKeys(d) \cap DictKeys(e) = {} /\ Cardinality(DictKeys(e)) = Len(e)
         THEN d \o e
         ELSE DictUpdate(DictSet(d, Head(e)[1], Head(e)[2]), Tail(e))

\* A nested value is a leaf scalar, a dict (a sequence of <<key, value>>) or
\* a list / tuple (a sequence of values); NoneValue is the value None.
NoneValue == [t |-> "none", v |-> "", items |-> <<>>]
Leaf(v) == [t |-> "leaf", v |-> v, items |-> <<>>]
Dict(items) == [t |-> "dict", v |-> "", items |-> items]
List(items) == [t |-> "list", v |-> "", items |-> items]

\* d[k] of an ordered dict that has the key k.
DictGet(d, k) == d[CHOOSE i \in DOMAIN d : d[i][1] = k][2]

\* value[key] with a string key: the entry of a mapping, KeyError if the
\* mapping has no such key, TypeError if value is no mapping (None, a
\* number, a list).
Subscript(value, key) ==
    IF value.t = "dict"
    THEN IF key \in DictKeys(value.items)
         THEN Returned(DictGet(value.items, key))
         ELSE Raised("KeyError")
    ELSE Raised("TypeError")

(***************************************************************************)
(* src/charm.py: flatten_config                                            *)
(***************************************************************************)
RECURSIVE flatten_config(_, _), flatten_items(_, _, _, _)
\* A flatten_config that stores an empty mapping or sequence as a leaf.
flatten_config_keeping_empty(value, prefix) ==
    IF value.t \in {"dict", "list"} /\ value.items # <<>>
    THEN flatten_items(value, prefix, 1, <<>>)
    ELSE << <<prefix, value.v>> >>

flatten_config(value, prefix) ==
    IF value.t \in {"dict", "list"}
    THEN flatten_items(value, prefix, 1, <<>>)
    ELSE << <<prefix, value.v>> >>

\* The loop of flatten_config over the items of a dict or a list, from the
\* i-th item on, with the entries collected so far in flat.
flatten_items(value, prefix, i, flat) ==
    IF i > Len(value.items) THEN flat
    ELSE LET new_prefix ==
                 IF value.t = "dict"
                 THEN IF prefix # "" THEN prefix \o "." \o value.items[i][1]
                                     ELSE value.items[i][1]
                 ELSE IF prefix # "" THEN prefix \o "[" \o ToString(i - 1) \o "]"
                                     ELSE "[" \o ToString(i - 1) \o "]"
             item == IF value.t = "dict" THEN value.items[i][2] ELSE value.items[i]
         IN  flatten_items(value, prefix, i + 1,
                           DictUpdate(flat, flatten_config(item, new_prefix)))

(***************************************************************************)
(* src/charm.py: the istioctl settings                                     *)
(***************************************************************************)
\* The live relation instances of an endpoint, in relation-id order.
Relations(rels) == SetToSeq({i \in DOMAIN rels : rels[i].live})

\* IstioCoreCharm._workload_tracing_provider: tracing is None when the
\* workload-tracing requirer is not ready or has no otlp_grpc endpoint, else
\* the endpoint [host, port].  Scalars are kept in the form str() gives them
\* when the settings become --set arguments.
workload_tracing_provider(tracing) ==
    IF IsNone(tracing)
    THEN [providers |-> <<>>, global_config |-> <<>>]
    ELSE [providers |->
              << Dict(<< <<"name", Leaf("otel-tracing")>>,
                         <<"opentelemetry",
                           Dict(<< <<"port", Leaf(ToString(Value(tracing).port))>>,
                                   <<"service", Leaf(Value(tracing).host)>> >>)>> >>) >>,
          global_config |->
              << <<"meshConfig.enableTracing", "true">>,
                 <<"meshConfig.defaultProviders.tracing[0]", "otel-tracing">>,
                 <<"meshConfig.defaultConfig.tracing.sampling", "100.0">> >>]

\* The provider name the charm gives to the relation with a remote application.
ext_authz_provider_name(app_name) == "ext_authz-" \o app_name

\* One entry of IstioCoreCharm._external_authorizer_providers.
external_authorizer(relation) ==
    LET ext_authz_info == Value(get_provider_ext_authz_info(relation))
    IN  Dict(<< <<"name", Leaf(ext_authz_provider_name(relation.app))>>,
                <<"envoyExtAuthzHttp",
                  Dict(<< <<"service", Leaf(Value(ext_authz_info.ext_authz_service_name))>>,
                          <<"port", Leaf(Value(ext_authz_info.ext_authz_port))>>,
                          <<"includeRequestHeadersInCheck",
                            List(<<Leaf("authorization"), Leaf("cookie")>>)>>,
                          <<"headersToUpstreamOnAllow",
                            List(<<Leaf("authorization"), Leaf("path"),
                                   Leaf("x-auth-request-user"),
                                   Leaf("x-auth-request-email"),
                                   Leaf("x-auth-request-access-token")>>)>>,
                          <<"headersToDownstreamOnAllow", List(<<Leaf("set-cookie")>>)>>,
                          <<"headersToDownstreamOnDeny",
                            List(<<Leaf("content-type"), Leaf("set-cookie")>>)>> >>)>> >>)

RECURSIVE external_authorizer_loop(_, _, _)
\* The loop of _external_authorizer_providers over the relation ids still to
\* visit, with the providers collected so far.
external_authorizer_loop(rels, ids, providers) ==
    IF ids = <<>> THEN providers
    ELSE LET relation == rels[Head(ids)]
         IN  IF is_ready(relation)
             THEN IF is_fake_authz_config(relation)
                  THEN providers
                  ELSE external_authorizer_loop(
                           rels, Tail(ids), Append(providers, external_authorizer(relation)))
             ELSE external_authorizer_loop(rels, Tail(ids), providers)

\* IstioCoreCharm._external_authorizer_providers
external_authorizer_providers(rels) ==
    external_authorizer_loop(rels, Relations(rels), <<>>)

RECURSIVE build_extension_providers_loop(_, _, _)
build_extension_providers_loop(providers, idx, config) ==
    IF idx > Len(providers) THEN config
    ELSE build_extension_providers_loop(
             providers, idx + 1,
             DictUpdate(config,
                        flatten_config(providers[idx],
                                       "meshConfig.extensionProviders["
                                           \o ToString(idx - 1) \o "]")))

\* A _build_extension_providers_config that gives every provider the index 0.
build_extension_providers_config_at_index_0(providers) ==
    IF providers = <<>> THEN <<>>
    ELSE DictUpdate(flatten_config(providers[1], "meshConfig.extensionProviders[0]"),
                    flatten_config(providers[Len(providers)],
                                   "meshConfig.extensionProviders[0]"))

\* IstioCoreCharm._build_extension_providers_config
build_extension_providers_config(providers) ==
    build_extension_providers_loop(providers, 1, <<>>)

\* IstioCoreCharm._get_istioctl: the Istioctl object for the current config,
\* tracing endpoint and istio-ingress-config relations.
get_istioctl(parsed_config, tracing, rels) ==
    LET wtp == workload_tracing_provider(tracing)
        all_providers == wtp.providers \o external_authorizer_providers(rels)
        s1 == DictUpdate(<<>>, build_extension_providers_config(all_providers))
        s2 == DictUpdate(s1, wtp.global_config)
        s3 == DictSet(s2, "meshConfig.accessLogFile", "/dev/stdout")
        s4 == IF parsed_config.platform # ""
              THEN DictSet(s3, "values.global.platform", parsed_config.platform)
              ELSE s3
        s5 == DictSet(s4,
                  "values.sidecarInjectorWebhook.injectedAnnotations.traffic\\.sidecar\\.istio\\.io/excludeOutboundIPRanges",
                  "0.0.0.0/0")
        s6 == IF parsed_config.ambient
              THEN DictSet(s5, "values.profile", "ambient") ELSE s5
        s7 == IF parsed_config.auto_allow_waypoint_policy
              THEN DictSet(s6, "values.pilot.env.PILOT_AUTO_ALLOW_WAYPOINT_POLICY", "true")
              ELSE s6
    IN  [namespace |-> ModelName, profile |-> "empty", setting_overrides |-> s7]

(***************************************************************************)
(* Kubernetes resources.                                                   *)
(***************************************************************************)
\* A resource as a manifest document or a lightkube object: namespace is an
\* Optional, spec maps field names to values, labels are the metadata labels
\* and podLabels the labels of the pod template.
Resource(kind, name, namespace, spec) ==
    [kind |-> kind, name |-> name, namespace |-> namespace, spec |-> spec,
     labels |-> EmptyBag, podLabels |-> EmptyBag]

Identity(r) == <<r.kind, r.namespace, r.name>>

(***************************************************************************)
(* src/istioctl.py                                                         *)
(***************************************************************************)
RECURSIVE settings_dict_to_args(_)
settings_dict_to_args(settings) ==
    IF settings = <<>> THEN <<>>
    ELSE <<"--set", Head(settings)[1] \o "=" \o Head(settings)[2]>>
             \o settings_dict_to_args(Tail(settings))

\* An _args that appends the overrides to the base settings.
Istioctl_args_appending(ictl) ==
    settings_dict_to_args(
        << <<"profile", ictl.profile>>,
           <<"values.global.istioNamespace", ictl.namespace>> >>
        \o ictl.setting_overrides)

\* Istioctl._args
Istioctl_args(ictl) ==
    settings_dict_to_args(
        DictUpdate(<< <<"profile", ictl.profile>>,
                      <<"values.global.istioNamespace", ictl.namespace>> >>,
                   ictl.setting_overrides))

RECURSIVE components_args(_)
components_args(components) ==
    IF components = <<>> THEN <<>>
    ELSE <<"--set", "components." \o Head(components) \o ".enabled=true">>
             \o components_args(Tail(components))

\* The istioctl binary on `manifest generate`: the documents of the enabled
\* components, generated from the --set arguments.  tool is how the binary
\* behaves in this invocation: "ok", "exit1" (a non-zero exit) or
\* "no_service_account" (a base manifest that does not end in the
\* ServiceAccount the charm expects).
IstioctlBinary(args, tool) ==
    LET enabled(c) == ("components." \o c \o ".enabled=true") \in Range(args)
        ns == Some(ModelName)
        base == IF enabled("base")
                THEN << Resource("CustomResourceDefinition",
                                 "authorizationpolicies.security.istio.io", None,
                                 [k \in {"group"} |-> "security.istio.io"]) >>
                     \o (IF tool = "no_service_account" THEN <<>>
                         ELSE << Resource("ServiceAccount",
                                          "istio-reader-service-account", ns, EmptyBag) >>)
                ELSE <<>>
        pilot == IF enabled("pilot")
                 THEN << Resource("Deployment", "istiod", ns, [k \in {"args"} |-> args]),
                         Resource("HorizontalPodAutoscaler", "istiod", ns,
                                  ("scaleTargetRef" :> "apps/v1/Deployment/istiod")
                                  @@ ("minReplicas" :> 1) @@ ("maxReplicas" :> 5)
                                  @@ ("metrics" :> "cpu-80")) >>
                 ELSE <<>>
        cni == IF enabled("cni")
               THEN << Resource("DaemonSet", "istio-cni-node", ns,
                                [k \in {"args"} |-> args]) >>
               ELSE <<>>
        ztunnel == IF enabled("ztunnel")
                   THEN << Resource("DaemonSet", "ztunnel", ns, [k \in {"args"} |-> args]) >>
                   ELSE <<>>
        manifest == base \o pilot \o cni \o ztunnel
    IN  [returncode |-> IF tool = "exit1" THEN 1 ELSE 0,
         stdout |-> IF tool = "exit1"
                    THEN SubSeq(manifest, 1, IF manifest = <<>> THEN 0 ELSE 1)
                    ELSE manifest,
         stderr |-> IF tool = "exit1" THEN "boom" ELSE ""]

\* subprocess.check_output(command): the standard output of the process, or
\* CalledProcessError on a non-zero exit.  The call redirects the standard
\* output only, so that the stderr of the exception is None whatever the
\* process wrote there.
subprocess_check_output(command, tool) ==
    LET process == IstioctlBinary(command, tool)
    IN  [raised |-> IF process.returncode # 0 THEN "CalledProcessError" ELSE "",
         returncode |-> process.returncode,
         stdout |-> process.stdout,
         stderr |-> None]

\* Istioctl._run: the output of the command, or IstioctlError on a non-zero
\* exit, with the message, the return code and the streams of the
\* CalledProcessError.  commands are the commands run.
Istioctl_run(args, tool) ==
    LET cpe == subprocess_check_output(args, tool)
    IN  IF cpe.raised # ""
        THEN [raised |-> "IstioctlError",
              message |-> <<"Failed to run command">> \o args
                              \o <<"with error code", ToString(cpe.returncode)>>,
              returncode |-> cpe.returncode, stdout |-> cpe.stdout,
              stderr |-> cpe.stderr, output |-> <<>>, commands |-> <<args>>]
        ELSE [raised |-> "", message |-> <<>>, returncode |-> 0, stdout |-> <<>>,
              stderr |-> None, output |-> cpe.stdout, commands |-> <<args>>]

\* _is_same_resource(manifest_doc, override_resource)
is_same_resource(manifest_doc, override_resource) ==
    LET manifest_namespace ==
            IF IsNone(manifest_doc.namespace) THEN Some("") ELSE manifest_doc.namespace
    IN  /\ manifest_doc.kind = override_resource.kind
        /\ manifest_doc.name = override_resource.name
        /\ manifest_namespace = override_resource.namespace

\* A merge that replaces every key of the override at the top level.
deep_merge_dict_shallow(base, updates) == Dict(DictUpdate(base.items, updates.items))

RECURSIVE deep_merge_dict(_, _)
\* _deep_merge_dict(base, updates) on two mappings: the loop over the items
\* of updates, base being the mapping as modified so far.
deep_merge_dict(base, updates) ==
    IF updates.items = <<>> THEN base
    ELSE LET key == Head(updates.items)[1]
             value == Head(updates.items)[2]
             merged ==
                 IF /\ key \in DictKeys(base.items)
                    /\ DictGet(base.items, key).t = "dict"
                    /\ value.t = "dict"
                 THEN deep_merge_dict(DictGet(base.items, key), value)
                 ELSE value
         IN  deep_merge_dict(Dict(DictSet(base.items, key, merged)),
                             Dict(Tail(updates.items)))

RECURSIVE InSomeOrder(_)
\* The elements of a finite set as a sequence.
InSomeOrder(S) ==
    IF S = {} THEN <<>>
    ELSE LET x == CHOOSE y \in S : TRUE
         IN  <<x>> \o InSomeOrder(S \ {x})

\* The fields of a resource as a mapping (a manifest document as
\* yaml.safe_load_all gives it, a lightkube object through to_dict()), and
\* the resource with the fields of a mapping.
to_dict(resource) ==
    LET keys == InSomeOrder(DOMAIN resource.spec)
    IN  Dict([i \in DOMAIN keys |-> <<keys[i], Leaf(resource.spec[keys[i]])>>])
from_dict(resource, fields) ==
    [resource EXCEPT !.spec = [k \in DictKeys(fields.items) |-> DictGet(fields.items, k).v]]

\* An _apply_manifest_overrides without the break: every matching override
\* is merged, so that the last one wins.
apply_manifest_overrides_all_matching(documents, overrides) ==
    [d \in DOMAIN documents |->
        LET matching == {o \in DOMAIN overrides :
                            is_same_resource(documents[d], overrides[o])}
            last == CHOOSE o \in matching : \A o2 \in matching : o >= o2
        IN  IF matching = {} THEN documents[d]
            ELSE from_dict(documents[d],
                           deep_merge_dict(to_dict(documents[d]), to_dict(overrides[last])))]

\* _apply_manifest_overrides: each document is merged with the first
\* override that matches it.
apply_manifest_overrides(documents, overrides) ==
    [d \in DOMAIN documents |->
        LET matching == {o \in DOMAIN overrides :
                            is_same_resource(documents[d], overrides[o])}
            first == CHOOSE o \in matching : \A o2 \in matching : o <= o2
        IN  IF matching = {} THEN documents[d]
            ELSE from_dict(documents[d],
                           deep_merge_dict(to_dict(documents[d]), to_dict(overrides[first])))]

\* Istioctl.manifest_generate(components, overrides)
manifest_generate(ictl, components, overrides, tool) ==
    LET args == <<"manifest", "generate">> \o Istioctl_args(ictl)
                    \o components_args(components)
        run == Istioctl_run(args, tool)
    IN  IF run.raised # "" THEN run
        ELSE IF overrides # <<>>
             THEN [run EXCEPT !.output = apply_manifest_overrides(@, overrides)]
             ELSE run

\* Istioctl.install() and Istioctl.upgrade()
Istioctl_install(ictl, tool) == Istioctl_run(<<"install", "-y">> \o Istioctl_args(ictl), tool)
Istioctl_upgrade(ictl, tool) == Istioctl_run(<<"upgrade", "-y">> \o Istioctl_args(ictl), tool)

\* A get_client_version that catches KeyError only.
get_client_version_key_error_only(version_dict) ==
    LET clientVersion == Subscript(version_dict, "clientVersion")
        version == IF clientVersion.raised # "" THEN clientVersion
                   ELSE Subscript(clientVersion.value, "version")
    IN  IF version.raised = "KeyError" THEN Raised("IstioctlError")
        ELSE IF version.raised # "" THEN version
        ELSE Returned(version.value.v)

\* get_client_version(version_dict): KeyError and TypeError of the lookups
\* become IstioctlError.
get_client_version(version_dict) ==
    LET clientVersion == Subscript(version_dict, "clientVersion")
        version == IF clientVersion.raised # "" THEN clientVersion
                   ELSE Subscript(clientVersion.value, "version")
    IN  IF version.raised \in {"KeyError", "TypeError"}
        THEN Raised("IstioctlError")
        ELSE Returned(version.value.v)

\* get_control_plane_version(version_dict): KeyError of the lookups becomes
\* IstioctlError, as do no mesh, several meshes and a mesh that is no pilot;
\* a TypeError (len() or a lookup on None or on a number) is not caught.
get_control_plane_version(version_dict) ==
    LET meshes == Subscript(version_dict, "meshVersion")
    IN  IF meshes.raised = "KeyError" THEN Raised("IstioctlError")
        ELSE IF meshes.raised # "" THEN meshes
        ELSE IF meshes.value.t \in {"leaf", "none"} THEN Raised("TypeError")
        ELSE IF Len(meshes.value.items) = 0 THEN Raised("IstioctlError")
        ELSE IF Len(meshes.value.items) > 1 THEN Raised("IstioctlError")
        ELSE IF meshes.value.t = "dict" THEN Raised("KeyError")
        ELSE LET mesh == meshes.value.items[1]
                 Component == Subscript(mesh, "Component")
                 Info == Subscript(mesh, "Info")
                 version == IF Info.raised # "" THEN Info
                            ELSE Subscript(Info.value, "version")
             IN  IF Component.raised = "KeyError" THEN Raised("IstioctlError")
                 ELSE IF Component.raised # "" THEN Component
                 ELSE IF Component.value.v # "pilot" THEN Raised("IstioctlError")
                 ELSE IF version.raised = "KeyError" THEN Raised("IstioctlError")
                 ELSE IF version.raised # "" THEN version
                 ELSE Returned(version.value.v)

\* Istioctl.version(): version_dict is what yaml.safe_load makes of the
\* output of the version subcommand, NoneValue for an empty output.
Istioctl_version(ictl, version_dict, tool) ==
    LET args == <<"version", "-i=" \o ictl.namespace, "-o=yaml">>
        run == Istioctl_run(args, tool)
        client == get_client_version(version_dict)
        control_plane == get_control_plane_version(version_dict)
    IN  IF run.raised # "" THEN Raised(run.raised)
        ELSE IF client.raised # "" THEN client
        ELSE IF control_plane.raised # "" THEN control_plane
        ELSE Returned([client |-> client.value, control_plane |-> control_plane.value])

(***************************************************************************)
(* The resource manager (lightkube_extensions KubernetesResourceManager)   *)
(* as the charm uses it: the cluster is a set of resources, a manager owns *)
(* the resources of its types that bear its labels.                        *)
(***************************************************************************)
CONTROL_PLANE_COMPONENTS == <<"pilot", "cni", "ztunnel">>
CONTROL_PLANE_LABEL == "control-plane"
CONTROL_PLANE_RESOURCE_TYPES ==
    {"ClusterRole", "ClusterRoleBinding", "ConfigMap", "DaemonSet", "Deployment",
     "HorizontalPodAutoscaler", "MutatingWebhookConfiguration", "PodDisruptionBudget",
     "Role", "RoleBinding", "Service", "ServiceAccount",
     "ValidatingWebhookConfiguration"}
ISTIO_CRDS_COMPONENTS == <<"base">>
ISTIO_CRDS_LABEL == "istio-crds"
ISTIO_CRDS_RESOURCE_TYPES == {"CustomResourceDefinition"}
GATEWAY_API_CRDS_LABEL == "gateway-apis-crds"
GATEWAY_API_CRDS_RESOURCE_TYPES == {"CustomResourceDefinition"}
AUTHORIZATION_POLICY_LABEL == "istio-authorization-policy"
AUTHORIZATION_POLICY_RESOURCE_TYPES == {"AuthorizationPolicy"}

\* The content of src/manifests/gateway-apis-crds.yaml.
GATEWAY_API_CRDS_MANIFEST ==
    << Resource("CustomResourceDefinition", "gateways.gateway.networking.k8s.io", None,
                [k \in {"group"} |-> "gateway.networking.k8s.io"]) >>

\* Default labels that do not name the scope.
create_charm_default_labels_without_scope(app_name, model_name, scope) ==
    [k \in {"app.kubernetes.io/instance"} |-> (app_name \o "-" \o model_name)]

create_charm_default_labels(app_name, model_name, scope) ==
    ("app.kubernetes.io/instance" :> (app_name \o "-" \o model_name))
    @@ ("kubernetes-resource-handler-scope" :> scope)

\* The four _get_*_resource_manager methods of the charm.
get_control_plane_kubernetes_resource_manager ==
    [labels |-> create_charm_default_labels(AppName, ModelName, CONTROL_PLANE_LABEL),
     resource_types |-> CONTROL_PLANE_RESOURCE_TYPES]
get_crds_kubernetes_resource_manager ==
    [labels |-> create_charm_default_labels(AppName, ModelName, ISTIO_CRDS_LABEL),
     resource_types |-> ISTIO_CRDS_RESOURCE_TYPES]
get_gateway_apis_kubernetes_resource_manager ==
    [labels |-> create_charm_default_labels(AppName, ModelName, GATEWAY_API_CRDS_LABEL),
     resource_types |-> GATEWAY_API_CRDS_RESOURCE_TYPES]
get_authorization_policy_resource_manager ==
    [labels |-> create_charm_default_labels(AppName, ModelName, AUTHORIZATION_POLICY_LABEL),
     resource_types |-> AUTHORIZATION_POLICY_RESOURCE_TYPES]

\* IstioCoreCharm._resource_manager_factories, in the order of the dict, and
\* IstioCoreCharm._get_resource_manager.
resource_manager_factories ==
    <<CONTROL_PLANE_LABEL, ISTIO_CRDS_LABEL, GATEWAY_API_CRDS_LABEL>>
get_resource_manager(resource_group) ==
    CASE resource_group = CONTROL_PLANE_LABEL ->
             get_control_plane_kubernetes_resource_manager
      [] resource_group = ISTIO_CRDS_LABEL -> get_crds_kubernetes_resource_manager
      [] resource_group = GATEWAY_API_CRDS_LABEL ->
             get_gateway_apis_kubernetes_resource_manager

\* The resources on the cluster a manager owns.
get_deployed_resources(cluster, krm) ==
    {r \in cluster :
        /\ r.kind \in krm.resource_types
        /\ \A k \in DOMAIN krm.labels :
               k \in DOMAIN r.labels /\ r.labels[k] = krm.labels[k]}

RECURSIVE krm_apply(_, _, _)
\* krm.apply(resources): each resource is written with the manager's labels
\* and replaces the resource of the same identity.
krm_apply(cluster, krm, resources) ==
    IF resources = <<>> THEN cluster
    ELSE LET r == [Head(resources) EXCEPT !.labels = Update(@, krm.labels)]
         IN  krm_apply({c \in cluster : Identity(c) # Identity(r)} \cup {r},
                       krm, Tail(resources))

\* A reconcile that takes the cluster for current as soon as the first
\* desired resource is on it as desired.
krm_reconcile_trusting_first(cluster, krm, resources, how) ==
    LET desired == {Identity(r) : r \in Range(resources)}
        deleted == {r \in get_deployed_resources(cluster, krm) : Identity(r) \notin desired}
        after_delete == cluster \ deleted
    IN  IF resources # <<>>
           /\ [Head(resources) EXCEPT !.labels = Update(@, krm.labels)] \in cluster
        THEN [cluster |-> cluster, raised |-> ""]
        ELSE [cluster |->
                  CASE how = "ok" -> krm_apply(after_delete, krm, resources)
                    [] how = "deleted" -> after_delete
                    [] how = "first" ->
                           krm_apply(after_delete, krm,
                                     IF resources = <<>> THEN <<>> ELSE <<Head(resources)>>),
              raised |-> IF how = "ok" THEN "" ELSE "ApiError"]

\* krm.reconcile(resources): the owned resources absent from the desired list
\* are deleted, then the desired resources are applied.  how is the outcome
\* of the call: "ok", or an API error raised after the deletions ("deleted")
\* or after the first resource was applied ("first").
krm_reconcile(cluster, krm, resources, how) ==
    LET desired == {Identity(r) : r \in Range(resources)}
        deleted == {r \in get_deployed_resources(cluster, krm) : Identity(r) \notin desired}
        after_delete == cluster \ deleted
    IN  [cluster |->
             CASE how = "ok" -> krm_apply(after_delete, krm, resources)
               [] how = "deleted" -> after_delete
               [] how = "first" ->
                      krm_apply(after_delete, krm,
                                IF resources = <<>> THEN <<>> ELSE <<Head(resources)>>),
         raised |-> IF how = "ok" THEN "" ELSE "ApiError"]

\* krm.delete(): every owned resource is removed.
krm_delete(cluster, krm) == cluster \ get_deployed_resources(cluster, krm)

(***************************************************************************)
(* src/charm.py: the steps of IstioCoreCharm._reconcile                    *)
(*                                                                         *)
(* A step works on st = [ingress, metadata, cluster, layer, log, raised]:  *)
(* the istio-ingress-config and istio-metadata relations, the cluster, the *)
(* metrics-proxy layer of the unit, the operations performed so far and    *)
(* the exception raised, "" if none.  An entry of the log is [op, arg, ok, *)
(* data]: the operation, what it was applied to, whether it succeeded and  *)
(* what it was given (the dict written to a databag, the resources handed  *)
(* to a resource manager).  env = [parsed_config, planned, tracing] is     *)
(* what the handler reads, and fault = [at, how] names the one external    *)
(* call of this invocation that does not behave normally.                  *)
(***************************************************************************)
NoFault == [at |-> "none", how |-> "none"]

\* How the istioctl binary behaves when asked for a group of components.
Tool(fault, group) == IF fault.at = "istioctl:" \o group THEN fault.how ELSE "ok"

\* How the API server behaves while a scope is reconciled.
ApplyOutcome(fault, scope) == IF fault.at = "krm:" \o scope THEN fault.how ELSE "ok"

\* How Pebble behaves.
PebbleOutcome(fault) == IF fault.at = "pebble" THEN fault.how ELSE "ok"

LoggedWith(st, op, arg, ok, data) ==
    [st EXCEPT !.log = Append(@, [op |-> op, arg |-> arg, ok |-> ok, data |-> data])]
Logged(st, op, arg, ok) == LoggedWith(st, op, arg, ok, <<>>)

Raise(st, exception) == [st EXCEPT !.raised = exception]

\* A slice that keeps the whole name.
Prefix10_untruncated(name) == name

\* name[:10], and hashlib.md5(text).hexdigest()[:10]: ten hexadecimal digits
\* (the digest itself is not computed).
Prefix10(name) == IF Len(name) > 10 THEN SubSeq(name, 1, 10) ELSE name
Md5Hex10(text) == "0f1e2d3c4b"

\* generate_telemetry_labels(app_name, model_name)
generate_telemetry_labels(app_name, model_name) ==
    LET key == "charms.canonical.com/" \o model_name \o "." \o app_name \o ".telemetry"
    IN  IF Len(key) > 63
        THEN [k \in {"charms.canonical.com/" \o Prefix10(model_name) \o "."
                         \o Prefix10(app_name) \o "."
                         \o Md5Hex10(model_name \o "." \o app_name) \o ".telemetry"}
                 |-> "aggregated"]
        ELSE [k \in {key} |-> "aggregated"]

telemetry_labels == generate_telemetry_labels(AppName, ModelName)

\* IstioCoreCharm.format_labels for the one-label dict of the charm.
format_labels(label_dict) ==
    LET key == CHOOSE k \in DOMAIN label_dict : TRUE
    IN  key \o "=" \o label_dict[key]

RECURSIVE publish_ext_authz_loop(_, _)
publish_ext_authz_loop(st, ids) ==
    IF ids = <<>> THEN st
    ELSE LET relation == st.ingress[Head(ids)]
             unique_name == ext_authz_provider_name(relation.app)
         IN  IF is_ready(relation)
             THEN publish_ext_authz_loop(
                      LoggedWith([st EXCEPT !.ingress[Head(ids)] =
                                     publish_ext_authz_provider_name(relation, unique_name)],
                                 "databag", "istio-ingress-config", TRUE,
                                 [k \in {"ext_authz_provider_name"} |-> unique_name]),
                      Tail(ids))
             ELSE publish_ext_authz_loop(st, Tail(ids))

\* IstioCoreCharm._publish_ext_authz_provider_names
publish_ext_authz_provider_names(st) ==
    publish_ext_authz_loop(st, Relations(st.ingress))

\* A _publish_istio_metadata that publishes the name of the application.
publish_istio_metadata_app_name(st) ==
    LET written == [st EXCEPT !.metadata = IstioMetadataProvider_publish(@, AppName)]
    IN  IF Relations(st.metadata) = <<>> THEN written
        ELSE LoggedWith(written, "databag", "istio-metadata", TRUE,
                        IstioMetadataAppData_dump(AppName))

\* IstioCoreCharm._publish_istio_metadata
publish_istio_metadata(st) ==
    LET written == [st EXCEPT !.metadata = IstioMetadataProvider_publish(@, ModelName)]
    IN  IF Relations(st.metadata) = <<>> THEN written
        ELSE LoggedWith(written, "databag", "istio-metadata", TRUE,
                        IstioMetadataAppData_dump(ModelName))

\* The call krm.reconcile(resources) of a step, for the manager of a scope.
reconcile_scope(st, krm, scope, resources, fault) ==
    LET r == krm_reconcile(st.cluster, krm, resources, ApplyOutcome(fault, scope))
    IN  Raise(LoggedWith([st EXCEPT !.cluster = r.cluster],
                         "krm.reconcile", scope, r.raised = "", resources),
              r.raised)

\* IstioCoreCharm._reconcile_gateway_api_crds
reconcile_gateway_api_crds(st, fault) ==
    reconcile_scope(st, get_gateway_apis_kubernetes_resource_manager,
                    GATEWAY_API_CRDS_LABEL, GATEWAY_API_CRDS_MANIFEST, fault)

\* IstioCoreCharm._reconcile_istio_crds
reconcile_istio_crds(st, env, fault) ==
    LET ictl == get_istioctl(env.parsed_config, env.tracing, st.ingress)
        run == manifest_generate(ictl, ISTIO_CRDS_COMPONENTS, <<>>, Tool(fault, "base"))
        ran == Logged(st, "istioctl", "base", run.raised = "")
        resources == run.output
    IN  IF run.raised # "" THEN Raise(ran, run.raised)
        ELSE IF resources[Len(resources)].kind = "ServiceAccount"
             THEN reconcile_scope(ran, get_crds_kubernetes_resource_manager,
                                  ISTIO_CRDS_LABEL,
                                  SubSeq(resources, 1, Len(resources) - 1), fault)
             ELSE Raise(ran, "ValueError")

\* A _construct_hpa that leaves the bounds istioctl generates.
construct_hpa_default_bounds(unit_count) ==
    Resource("HorizontalPodAutoscaler", "istiod", Some(ModelName),
             [k \in {"scaleTargetRef"} |-> "apps/v1/Deployment/istiod"])

\* IstioCoreCharm._construct_hpa
construct_hpa(unit_count) ==
    Resource("HorizontalPodAutoscaler", "istiod", Some(ModelName),
             ("scaleTargetRef" :> "apps/v1/Deployment/istiod")
             @@ ("minReplicas" :> unit_count) @@ ("maxReplicas" :> unit_count))

\* IstioCoreCharm._add_metrics_labels
add_metrics_labels(resources) ==
    [i \in DOMAIN resources |->
        IF /\ resources[i].kind \in {"DaemonSet", "Deployment"}
           /\ resources[i].name \in {"ztunnel", "istio-cni-node", "istiod"}
        THEN [resources[i] EXCEPT !.podLabels = Update(@, telemetry_labels)]
        ELSE resources[i]]

\* A _reconcile_control_plane without the test of unit_count.
reconcile_control_plane_unguarded(st, env, fault) ==
    LET ictl == get_istioctl(env.parsed_config, env.tracing, st.ingress)
        unit_count == env.planned
        run == manifest_generate(ictl, CONTROL_PLANE_COMPONENTS,
                                 <<construct_hpa(unit_count)>>,
                                 Tool(fault, "control-plane"))
        ran == Logged(st, "istioctl", "control-plane", run.raised = "")
        krm == get_control_plane_kubernetes_resource_manager
    IN  IF run.raised # "" THEN Raise(ran, run.raised)
        ELSE reconcile_scope(ran, krm, CONTROL_PLANE_LABEL,
                             add_metrics_labels(run.output), fault)

\* A _reconcile_control_plane that leaves the manager alone when no unit is
\* planned.
reconcile_control_plane_guarding_the_call(st, env, fault) ==
    LET ictl == get_istioctl(env.parsed_config, env.tracing, st.ingress)
        unit_count == env.planned
        run == manifest_generate(ictl, CONTROL_PLANE_COMPONENTS,
                                 <<construct_hpa(unit_count)>>,
                                 Tool(fault, "control-plane"))
        ran == Logged(st, "istioctl", "control-plane", run.raised = "")
        krm == get_control_plane_kubernetes_resource_manager
    IN  IF unit_count > 0
        THEN IF run.raised # "" THEN Raise(ran, run.raised)
             ELSE reconcile_scope(ran, krm, CONTROL_PLANE_LABEL,
                                  add_metrics_labels(run.output), fault)
        ELSE st

\* IstioCoreCharm._reconcile_control_plane
reconcile_control_plane(st, env, fault) ==
    LET ictl == get_istioctl(env.parsed_config, env.tracing, st.ingress)
        unit_count == env.planned
        run == manifest_generate(ictl, CONTROL_PLANE_COMPONENTS,
                                 <<construct_hpa(unit_count)>>,
                                 Tool(fault, "control-plane"))
        ran == Logged(st, "istioctl", "control-plane", run.raised = "")
        krm == get_control_plane_kubernetes_resource_manager
    IN  IF unit_count > 0
        THEN IF run.raised # "" THEN Raise(ran, run.raised)
             ELSE reconcile_scope(ran, krm, CONTROL_PLANE_LABEL,
                                  add_metrics_labels(run.output), fault)
        ELSE reconcile_scope(st, krm, CONTROL_PLANE_LABEL, <<>>, fault)

\* A _build_authorization_policies that does not read the option.
build_authorization_policies_always(parsed_config) ==
    << Resource("AuthorizationPolicy",
                AppName \o "-" \o ModelName \o "-policy-global-allow-nothing-l4",
                Some(ModelName), EmptyBag),
       Resource("AuthorizationPolicy",
                AppName \o "-" \o ModelName \o "-policy-global-allow-nothing-waypoints",
                Some(ModelName),
                [k \in {"targetRefs"} |->
                    <<"GatewayClass/gateway.networking.k8s.io/istio-waypoint">>]) >>

\* IstioCoreCharm._build_authorization_policies
build_authorization_policies(parsed_config) ==
    IF parsed_config.global_allow_nothing_policy
    THEN << Resource("AuthorizationPolicy",
                     AppName \o "-" \o ModelName \o "-policy-global-allow-nothing-l4",
                     Some(ModelName), EmptyBag),
            Resource("AuthorizationPolicy",
                     AppName \o "-" \o ModelName \o "-policy-global-allow-nothing-waypoints",
                     Some(ModelName),
                     [k \in {"targetRefs"} |->
                         <<"GatewayClass/gateway.networking.k8s.io/istio-waypoint">>]) >>
    ELSE <<>>

\* IstioCoreCharm._reconcile_authorization_policies
reconcile_authorization_policies(st, env, fault) ==
    reconcile_scope(st, get_authorization_policy_resource_manager,
                    AUTHORIZATION_POLICY_LABEL,
                    build_authorization_policies(env.parsed_config), fault)

\* IstioCoreCharm._setup_proxy_pebble_service: nothing is done when the
\* container cannot be reached, an error of add_layer propagates and a
\* ChangeError of replan is logged.
setup_proxy_pebble_service(st, fault) ==
    LET how == PebbleOutcome(fault)
        command == "metrics-proxy --labels " \o format_labels(telemetry_labels)
    IN  CASE how = "cannot_connect" -> st
          [] how = "add_layer_error" ->
                 Raise(Logged(st, "pebble", "add_layer", FALSE), "ConnectionError")
          [] how = "replan_error" ->
                 Logged(Logged([st EXCEPT !.layer = Some(command)],
                               "pebble", "add_layer", TRUE),
                        "pebble", "replan", FALSE)
          [] OTHER ->
                 Logged(Logged([st EXCEPT !.layer = Some(command)],
                               "pebble", "add_layer", TRUE),
                        "pebble", "replan", TRUE)

(***************************************************************************)
(* src/charm.py: IstioCoreCharm._reconcile                                 *)
(***************************************************************************)
\* The steps with the relation data published after the resources.
RECONCILE_STEPS_publish_last ==
    <<"reconcile_gateway_api_crds", "reconcile_istio_crds",
      "reconcile_control_plane", "reconcile_authorization_policies",
      "publish_ext_authz_provider_names", "publish_istio_metadata",
      "setup_proxy_pebble_service">>

\* The steps with the control plane reconciled before the Istio CRDs.
RECONCILE_STEPS_control_plane_early ==
    <<"publish_ext_authz_provider_names", "publish_istio_metadata",
      "reconcile_gateway_api_crds", "reconcile_control_plane",
      "reconcile_istio_crds", "reconcile_authorization_policies",
      "setup_proxy_pebble_service">>

\* The calls of _reconcile after the leadership gate, in program order.
RECONCILE_STEPS ==
    <<"publish_ext_authz_provider_names", "publish_istio_metadata",
      "reconcile_gateway_api_crds", "reconcile_istio_crds",
      "reconcile_control_plane", "reconcile_authorization_policies",
      "setup_proxy_pebble_service">>

call_step(name, st, env, fault) ==
    LET begun == Logged(st, "step", name, TRUE)
    IN  CASE name = "publish_ext_authz_provider_names" ->
                 publish_ext_authz_provider_names(begun)
          [] name = "publish_istio_metadata" -> publish_istio_metadata(begun)
          [] name = "reconcile_gateway_api_crds" -> reconcile_gateway_api_crds(begun, fault)
          [] name = "reconcile_istio_crds" -> reconcile_istio_crds(begun, env, fault)
          [] name = "reconcile_control_plane" -> reconcile_control_plane(begun, env, fault)
          [] name = "reconcile_authorization_policies" ->
                 reconcile_authorization_policies(begun, env, fault)
          [] name = "setup_proxy_pebble_service" -> setup_proxy_pebble_service(begun, fault)

RECURSIVE call_steps_ignoring_errors(_, _, _, _)
\* The steps run one after the other whatever the earlier ones raised.
call_steps_ignoring_errors(steps, st, env, fault) ==
    IF steps = <<>> THEN st
    ELSE call_steps_ignoring_errors(
             Tail(steps),
             LET next == call_step(Head(steps), st, env, fault)
             IN  IF st.raised # "" THEN Raise(next, st.raised) ELSE next,
             env, fault)

RECURSIVE call_steps(_, _, _, _)
\* The statements of a Python function body run in order; an exception
\* raised by one of them leaves the function, and the rest does not run.
call_steps(steps, st, env, fault) ==
    IF steps = <<>> \/ st.raised # "" THEN st
    ELSE call_steps(Tail(steps), call_step(Head(steps), st, env, fault), env, fault)

\* _reconcile without its leadership gate: every unit runs the steps.
reconcile_ungated(st, env, is_leader, fault) ==
    call_steps(RECONCILE_STEPS, Logged(st, "is_leader", "", is_leader), env, fault)

\* IstioCoreCharm._reconcile(event) on a unit for which unit.is_leader()
\* returns is_leader.
reconcile(st, env, is_leader, fault) ==
    LET gate == Logged(st, "is_leader", "", is_leader)
    IN  IF ~is_leader THEN gate
        ELSE call_steps(RECONCILE_STEPS, gate, env, fault)

RECURSIVE remove_loop(_, _)
remove_loop(st, names) ==
    IF names = <<>> THEN st
    ELSE remove_loop(
             Logged([st EXCEPT !.cluster =
                        krm_delete(@, get_resource_manager(Head(names)))],
                    "krm.delete", Head(names), TRUE),
             Tail(names))

\* IstioCoreCharm._remove(event) on a unit for which unit.is_leader() returns
\* is_leader.
remove(st, is_leader) ==
    LET gate == Logged(st, "is_leader", "", is_leader)
    IN  IF is_leader THEN remove_loop(gate, resource_manager_factories) ELSE gate

(***************************************************************************)
(* The state of the deployment.                                            *)
(***************************************************************************)
VARIABLES
    leader,      \* the unit that holds the leadership
    planned,     \* app.planned_units()
    ingress,     \* the istio-ingress-config relations: [live, app, remote, local]
    metadata,    \* the istio-metadata relations: [live, local]
    cluster,     \* the resources on the Kubernetes cluster
    pebble,      \* per unit, the metrics-proxy layer of its container, or None
    relations,   \* the remote application databags of a requirer endpoint
    result,      \* the outcome of the last read of that endpoint
    notice,      \* the last event of that endpoint and what the Receiver emitted
    sent,        \* the local application databags of a Sender endpoint
    toSend,      \* the root namespace the Sender is constructed with
    handled,     \* the last event a unit of the Sender's charm handled
    provided,    \* the local application databags of an IngressConfigProvider
    called       \* the call of a function of istioctl.py or of flatten_config

loopVars == <<leader, planned, ingress, metadata, cluster, pebble>>
recvVars == <<relations, result, notice>>
sendVars == <<sent, toSend, handled, provided>>
callVars == <<called>>
vars == <<leader, planned, ingress, metadata, cluster, pebble, relations, result,
          notice, sent, toSend, handled, provided, called>>

\* The configuration of the deployment as the handler reads it from
\* parsed_config: the options charm.py looks up, under the names of their
\* keys.  (The CharmConfig class of src/config.py declares ambient,
\* cni-bin-dir, cni-conf-dir and auto-allow-waypoint-policy only; the model
\* takes parsed_config to hold every option the charm reads.)  NoTracing is
\* the workload-tracing relation without an otlp_grpc endpoint.
DefaultConfig ==
    [ambient |-> TRUE, platform |-> "", auto_allow_waypoint_policy |-> TRUE,
     global_allow_nothing_policy |-> TRUE]
NoTracing == None

\* What an ingress charm may have in its application databag: nothing, an
\* ext-authz configuration, the fake configuration that stands for a cleared
\* databag, one field of the two, or a port that is no number.
IngressRemoteBags ==
    {EmptyBag,
     ("ext_authz_service_name" :> "oauth-service") @@ ("ext_authz_port" :> "8080"),
     ("ext_authz_service_name" :> FAKE_EXT_AUTHZ_SERVICE_NAME)
         @@ ("ext_authz_port" :> FAKE_EXT_AUTHZ_PORT),
     [k \in {"ext_authz_service_name"} |-> "oauth-service"],
     [k \in {"ext_authz_port"} |-> "8080"],
     ("ext_authz_service_name" :> "oauth-service") @@ ("ext_authz_port" :> "http")}

NoIngressRelation(i) ==
    [live |-> FALSE, app |-> IngressAppName(i), remote |-> EmptyBag, local |-> EmptyBag]
MetadataRelation == [live |-> TRUE, local |-> EmptyBag]

\* The one external call that may misbehave during a handler.
Faults ==
    {NoFault}
    \cup {[at |-> "istioctl:base", how |-> h] : h \in {"exit1", "no_service_account"}}
    \cup {[at |-> "istioctl:control-plane", how |-> "exit1"]}
    \cup {[at |-> "krm:" \o scope, how |-> "first"] :
             scope \in {GATEWAY_API_CRDS_LABEL, ISTIO_CRDS_LABEL, CONTROL_PLANE_LABEL,
                        AUTHORIZATION_POLICY_LABEL}}
    \cup {[at |-> "krm:" \o CONTROL_PLANE_LABEL, how |-> "deleted"]}
    \cup {[at |-> "pebble", how |-> h] :
             h \in {"cannot_connect", "add_layer_error", "replan_error"}}

LoopInit ==
    /\ leader \in Units
    /\ planned = 1
    /\ ingress = [i \in IngressIds |-> NoIngressRelation(i)]
    /\ metadata = [i \in MetadataIds |-> MetadataRelation]
    /\ cluster = {}
    /\ pebble = [u \in Units |-> None]

NoResult == [call |-> "", rel |-> 0, raised |-> "", value |-> None]
NoNotice == [event |-> "", emitted |-> <<>>]
RecvIdle == relations = <<>> /\ result = NoResult /\ notice = NoNotice

\* No event handled yet by a unit of the Sender's charm.
NoEvent ==
    [unit |-> 0, event |-> "", is_leader |-> FALSE, before |-> <<>>, missed |-> FALSE]
SendIdle ==
    /\ sent = <<>>
    /\ toSend = ModelName
    /\ handled = NoEvent
    /\ provided = <<>>

\* No function called yet.
NoCall == [fn |-> "", args |-> <<>>, out |-> Returned(None), done |-> FALSE]
CallIdle == called = NoCall

Init == LoopInit /\ RecvIdle /\ SendIdle /\ CallIdle

(***************************************************************************)
(* The handlers of the charm.                                              *)
(***************************************************************************)
\* The state a handler of unit u starts from, and what it reads.
HandlerState(u) ==
    [ingress |-> ingress, metadata |-> metadata, cluster |-> cluster,
     layer |-> pebble[u], log |-> <<>>, raised |-> ""]
HandlerEnv == [parsed_config |-> DefaultConfig, planned |-> planned, tracing |-> NoTracing]

\* The framework runs _reconcile on unit u for one of the observed events.
\* A unit that is not the leader makes no external call, so that no fault
\* is drawn for it.
Reconcile(u, fault) ==
    /\ leader # u => fault = NoFault
    /\ \E out \in {reconcile(HandlerState(u), HandlerEnv, leader = u, fault)} :
           /\ ingress' = out.ingress
           /\ metadata' = out.metadata
           /\ cluster' = out.cluster
           /\ pebble' = [pebble EXCEPT ![u] = out.layer]
    /\ UNCHANGED <<leader, planned, recvVars, sendVars, callVars>>

\* The framework runs _remove on unit u, which is leaving; the slot u is
\* taken again by a unit added later.
Remove(u) ==
    /\ cluster' = remove(HandlerState(u), leader = u).cluster
    /\ UNCHANGED <<leader, planned, ingress, metadata, pebble, recvVars, sendVars, callVars>>

(***************************************************************************)
(* The environment: Juju and the related applications.                     *)
(***************************************************************************)
LeaderChanges(u) ==
    /\ u # leader
    /\ leader' = u
    /\ UNCHANGED <<planned, ingress, metadata, cluster, pebble, recvVars, sendVars, callVars>>

ScaleApplication(n) ==
    /\ n # planned
    /\ planned' = n
    /\ UNCHANGED <<leader, ingress, metadata, cluster, pebble, recvVars, sendVars, callVars>>

IngressRelationCreated(i) ==
    /\ ~ingress[i].live
    /\ ingress' = [ingress EXCEPT ![i].live = TRUE]
    /\ UNCHANGED <<leader, planned, metadata, cluster, pebble, recvVars, sendVars, callVars>>

IngressRemoteWrites(i, bag) ==
    /\ ingress[i].live
    /\ bag # ingress[i].remote
    /\ ingress' = [ingress EXCEPT ![i].remote = bag]
    /\ UNCHANGED <<leader, planned, metadata, cluster, pebble, recvVars, sendVars, callVars>>

IngressRelationBroken(i) ==
    /\ ingress[i].live
    /\ ingress' = [ingress EXCEPT ![i] = NoIngressRelation(i)]
    /\ UNCHANGED <<leader, planned, metadata, cluster, pebble, recvVars, sendVars, callVars>>

Next ==
    \/ \E u \in Units, fault \in Faults : Reconcile(u, fault)
    \/ \E u \in Units : Remove(u)
    \/ \E u \in Units : LeaderChanges(u)
    \/ \E n \in 0..MaxPlanned : ScaleApplication(n)
    \/ \E i \in IngressIds : IngressRelationCreated(i)
    \/ \E i \in IngressIds, bag \in IngressRemoteBags : IngressRemoteWrites(i, bag)
    \/ \E i \in IngressIds : IngressRelationBroken(i)

Spec == Init /\ [][Next]_vars

(***************************************************************************)
(* A charm that requires istio-info or istio-metadata: the relation        *)
(* instances of its endpoint come and go, the related applications write   *)
(* their application databags, and the charm reads the endpoint.           *)
(***************************************************************************)
\* What a related application may have in its application databag: nothing,
\* what the provider side of the interface publishes, content without the
\* field of the schema, or an ext-authz configuration whose port is no
\* number.
RemoteBags ==
    {EmptyBag,
     IstioMetadataAppData_dump("istio-system"),
     IstioInfoAppData_dump("not-istio-system"),
     [k \in {"namespace"} |-> "istio-system"],
     ("ext_authz_service_name" :> "oauth-service") @@ ("ext_authz_port" :> "http")}

\* The sequence s without its i-th element.
Without(s, i) == SubSeq(s, 1, i - 1) \o SubSeq(s, i + 1, Len(s))

LoopIdle ==
    /\ leader = 1
    /\ planned = 1
    /\ ingress = [i \in IngressIds |-> NoIngressRelation(i)]
    /\ metadata = [i \in MetadataIds |-> MetadataRelation]
    /\ cluster = {}
    /\ pebble = [u \in Units |-> None]

RecvInit == LoopIdle /\ RecvIdle /\ SendIdle /\ CallIdle

\* The events the charm passes to the Receiver and the Sender as
\* refresh_event, and the events a charm handles besides.
REFRESH_EVENT == <<"config_changed">>
OTHER_EVENTS == {"relation_changed", "config_changed", "update_status"}

\* The framework delivers event to the charm: the event and what the
\* Receiver emits while it is handled.
Noticed(event) ==
    [event |-> event, emitted |-> Receiver_emit(Receiver_observed(REFRESH_EVENT), event)]

RecvRelationCreated ==
    /\ Len(relations) < MaxRecvRels
    /\ relations' = Append(relations, EmptyBag)
    /\ result' = NoResult
    /\ notice' = Noticed("relation_created")
    /\ UNCHANGED <<loopVars, sendVars, callVars>>

RecvRemoteWrites(i, bag) ==
    /\ bag # relations[i]
    /\ relations' = [relations EXCEPT ![i] = bag]
    /\ result' = NoResult
    /\ notice' = Noticed("relation_changed")
    /\ UNCHANGED <<loopVars, sendVars, callVars>>

RecvRelationBroken(i) ==
    /\ relations' = Without(relations, i)
    /\ result' = NoResult
    /\ notice' = Noticed("relation_broken")
    /\ UNCHANGED <<loopVars, sendVars, callVars>>

\* An event that changes no application databag: a relation_changed for the
\* data of a remote unit, the refresh event, or an event the Receiver does
\* not observe.
RecvEvent(event) ==
    /\ event = "relation_changed" => relations # <<>>
    /\ notice' = Noticed(event)
    /\ UNCHANGED <<relations, result, loopVars, sendVars, callVars>>

\* The charm calls one of the readers; result keeps the call and its outcome
\* until the endpoint changes.
Called(call, outcome) ==
    [call |-> call, rel |-> 0, raised |-> outcome.raised, value |-> outcome.value]

\* A call of a reader that takes the relation instance to read.
CalledOn(call, i, outcome) == [Called(call, outcome) EXCEPT !.rel = i]

CallReceiverGetData ==
    /\ result' = Called("Receiver.get_data", Receiver_get_data(relations))
    /\ UNCHANGED <<relations, notice, loopVars, sendVars, callVars>>

CallRequirerGetData ==
    /\ result' = Called("IstioMetadataRequirer.get_data",
                        IstioMetadataRequirer_get_data(relations))
    /\ UNCHANGED <<relations, notice, loopVars, sendVars, callVars>>

CallReceiverGetDataFromAllRelations ==
    /\ result' = Called("Receiver.get_data_from_all_relations",
                        Receiver_get_data_from_all_relations(relations))
    /\ UNCHANGED <<relations, notice, loopVars, sendVars, callVars>>

\* The charm reads the ext-authz configuration of the i-th relation instance.
CallGetProviderExtAuthzInfo(i) ==
    /\ result' = CalledOn("IngressConfigRequirer.get_provider_ext_authz_info", i,
                          Returned(get_provider_ext_authz_info([remote |-> relations[i]])))
    /\ UNCHANGED <<relations, notice, loopVars, sendVars, callVars>>

RecvNext ==
    \/ RecvRelationCreated
    \/ \E i \in DOMAIN relations, bag \in RemoteBags : RecvRemoteWrites(i, bag)
    \/ \E i \in DOMAIN relations : RecvRelationBroken(i)
    \/ CallReceiverGetData
    \/ CallRequirerGetData
    \/ CallReceiverGetDataFromAllRelations
    \/ \E i \in DOMAIN relations : CallGetProviderExtAuthzInfo(i)
    \/ \E event \in OTHER_EVENTS : RecvEvent(event)

RecvSpec == RecvInit /\ [][RecvNext]_vars

(***************************************************************************)
(* A charm that provides istio-info through a Sender and publishes an      *)
(* ext-authz configuration through an IngressConfigProvider: the relation  *)
(* instances of the endpoints come and go, the leadership moves between    *)
(* the units, the units handle events, and the leader's charm publishes.   *)
(***************************************************************************)
\* The root namespaces a charm may construct the Sender with.
Namespaces == {ModelName, "not-the-real-namespace"}

\* Local application data that no Sender of this revision wrote.
LegacyBags == {[k \in {"namespace"} |-> ModelName]}

\* The events a unit of the charm handles.
SENDER_EVENTS == {"relation_joined", "leader_elected", "config_changed", "update_status"}

\* The arguments the charm may call IngressConfigProvider.publish with.
ServiceNames == {None, Some("oauth-service")}
Ports == {None, Some("8080"), Some("http")}

SendInit == LoopInit /\ RecvIdle /\ SendIdle /\ CallIdle

SendRelationCreated ==
    /\ Len(sent) < MaxSendRels
    /\ sent' = Append(sent, EmptyBag)
    /\ handled' = NoEvent
    /\ UNCHANGED <<toSend, provided, loopVars, recvVars, callVars>>

SendRelationBroken(i) ==
    /\ sent' = Without(sent, i)
    /\ handled' = NoEvent
    /\ UNCHANGED <<toSend, provided, loopVars, recvVars, callVars>>

\* The charm is upgraded from a revision that wrote other data to the
\* relation.
LocalDataLeftByOtherRevision(i, bag) ==
    /\ sent[i] # bag
    /\ sent' = [sent EXCEPT ![i] = bag]
    /\ handled' = NoEvent
    /\ UNCHANGED <<toSend, provided, loopVars, recvVars, callVars>>

\* The charm comes to construct the Sender with another root namespace.
SenderDataChanges(root_namespace) ==
    /\ root_namespace # toSend
    /\ toSend' = root_namespace
    /\ handled' = NoEvent
    /\ UNCHANGED <<sent, provided, loopVars, recvVars, callVars>>

\* Unit u handles event: the framework runs the observers of the Sender.
\* handled keeps the event, whether u led, the databags as they were, and
\* whether the event handled before was a relation_joined on a unit that
\* did not lead.
HandleSendDataEvent(u, event) ==
    /\ event = "relation_joined" => sent # <<>>
    /\ sent' = Sender_emit(Sender_observed(REFRESH_EVENT), event, sent,
                           IstioInfoProvider_data(toSend), leader = u)
    /\ handled' = [unit |-> u, event |-> event, is_leader |-> (leader = u),
                   before |-> sent,
                   missed |-> (handled.event = "relation_joined" /\ ~handled.is_leader)]
    /\ UNCHANGED <<toSend, provided, loopVars, recvVars, callVars>>

ProvidedRelationCreated ==
    /\ Len(provided) < MaxProvidedRels
    /\ provided' = Append(provided, EmptyBag)
    /\ UNCHANGED <<sent, toSend, handled, loopVars, recvVars, callVars>>

\* The charm of the leader calls IngressConfigProvider.publish.
IngressConfigProviderPublishes(ext_authz_service_name, ext_authz_port) ==
    /\ provided' = IngressConfigProvider_publish(provided, ext_authz_service_name,
                                                 ext_authz_port)
    /\ UNCHANGED <<sent, toSend, handled, loopVars, recvVars, callVars>>

SendNext ==
    \/ SendRelationCreated
    \/ \E i \in DOMAIN sent : SendRelationBroken(i)
    \/ \E i \in DOMAIN sent, bag \in LegacyBags : LocalDataLeftByOtherRevision(i, bag)
    \/ \E root_namespace \in Namespaces : SenderDataChanges(root_namespace)
    \/ \E u \in Units, event \in SENDER_EVENTS : HandleSendDataEvent(u, event)
    \/ \E u \in Units : LeaderChanges(u)
    \/ ProvidedRelationCreated
    \/ \E name \in ServiceNames, port \in Ports : IngressConfigProviderPublishes(name, port)

SendSpec == SendInit /\ [][SendNext]_vars

(***************************************************************************)
(* The functions of istioctl.py and flatten_config, called on their own:   *)
(* called is the call, [fn, args, out, done].                              *)
(***************************************************************************)
\* A call that is about to be made, and the call once it returned or raised.
Pending(fn, args) == [fn |-> fn, args |-> args, out |-> Returned(None), done |-> FALSE]
Calls(out) == [called EXCEPT !.out = out, !.done = TRUE]

MaxMeshes == 2

\* The Istioctl object the charm builds without relations.
DefaultIstioctl == get_istioctl(DefaultConfig, NoTracing, <<>>)

\* What the version subcommand reports of the client: nothing, a
\* clientVersion without a version, or the version of the binary.
ClientVersions ==
    {<<>>,
     << <<"clientVersion", Dict(<<>>)>> >>,
     << <<"clientVersion", Dict(<< <<"version", Leaf("1.24.0")>> >>)>> >>}

\* An entry of meshVersion: a pilot with its version, a pilot whose Info
\* has no version, a pilot without Info, another component, an entry
\* without Component.
MeshEntries ==
    {Dict(<< <<"Component", Leaf("pilot")>>,
             <<"Info", Dict(<< <<"version", Leaf("1.23.1")>> >>)>> >>),
     Dict(<< <<"Component", Leaf("pilot")>>, <<"Info", Dict(<<>>)>> >>),
     Dict(<< <<"Component", Leaf("pilot")>> >>),
     Dict(<< <<"Component", Leaf("ztunnel")>>,
             <<"Info", Dict(<< <<"version", Leaf("1.23.1")>> >>)>> >>),
     Dict(<< <<"Info", Dict(<< <<"version", Leaf("1.23.1")>> >>)>> >>)}

MeshVersions ==
    {<<>>}
    \cup {<< <<"meshVersion", List(meshes)>> >> :
              meshes \in UNION {[1..n -> MeshEntries] : n \in 0..MaxMeshes}}

\* The parsed outputs of the version subcommand: None for an empty output,
\* else a mapping.
VersionOutputs ==
    {NoneValue} \cup {Dict(c \o m) : c \in ClientVersions, m \in MeshVersions}

MaxSettings == 2

\* The setting overrides a caller may construct Istioctl with: up to
\* MaxSettings settings, the keys of the base settings among them.
SettingKeys == {"profile", "values.global.istioNamespace", "k1", "k2"}
SettingOverrides ==
    {s \in UNION {[1..n -> SettingKeys \X {"v1", "v2"}] : n \in 0..MaxSettings} :
        \A i, j \in DOMAIN s : s[i][1] = s[j][1] => i = j}
Istioctls ==
    {[namespace |-> ModelName, profile |-> "empty", setting_overrides |-> s] :
        s \in SettingOverrides}

\* The component lists manifest_generate is called with.
ComponentLists == {<<>>, ISTIO_CRDS_COMPONENTS, CONTROL_PLANE_COMPONENTS, <<"cni", "pilot">>}

\* The override lists manifest_generate is called with: none, and the
\* HorizontalPodAutoscaler of the charm.
OverrideLists == {<<>>, <<construct_hpa(3)>>}

MaxDocuments == 2
MaxOverrides == 2

\* The documents of a manifest and the overrides _apply_manifest_overrides
\* is called with: ConfigMaps with and without a namespace, whose spec
\* stands for the entries of data.
ManifestDocuments ==
    {Resource("ConfigMap", "X", None, [k \in {"a"} |-> "1"]),
     Resource("ConfigMap", "X", Some(ModelName), [k \in {"a"} |-> "1"]),
     Resource("ConfigMap", "Y", Some(ModelName), [k \in {"a"} |-> "1"])}
ManifestOverrides ==
    {Resource("ConfigMap", "X", None, [k \in {"b"} |-> "2"]),
     Resource("ConfigMap", "X", Some(ModelName), [k \in {"b"} |-> "2"]),
     Resource("ConfigMap", "X", Some(ModelName), ("a" :> "9") @@ ("c" :> "3"))}
\* The mappings with an optional entry k1 from V1 followed by an optional
\* entry k2 from V2.
Mappings(k1, V1, k2, V2) ==
    {Dict(e1 \o e2) : e1 \in {<<>>} \cup {<< <<k1, v>> >> : v \in V1},
                      e2 \in {<<>>} \cup {<< <<k2, v>> >> : v \in V2}}

\* Values that are no mapping, and the mappings of one, two and three
\* levels _deep_merge_dict is called with.
Plain == {Leaf("1"), List(<<Leaf("2")>>)}
Inner == Mappings("p", Plain, "q", {Leaf("3")})
Middle == Mappings("x", Plain \cup Inner, "y", Plain)
Outer == Mappings("a", Plain \cup Middle, "b", Plain)

DeepMergeCalls == {Pending("deep_merge_dict", <<base, updates>>) : base, updates \in Outer}

\* The nested values flatten_config is called with: a leaf, a list, and
\* mappings of two levels, among them mappings with a key that holds a dot.
FlattenLeaves == {Leaf("1"), Leaf("2")}
FlattenLists == {List(<<>>), List(<<Leaf("1")>>), List(<<Leaf("1"), Leaf("2")>>)}
FlattenInner == Mappings("b", FlattenLeaves, "c", FlattenLeaves) \cup FlattenLists
FlattenValues ==
    FlattenLeaves
    \cup {List(<<v>>) : v \in FlattenInner}
    \cup {Dict(m.items \o e) :
              m \in Mappings("a", FlattenLeaves \cup FlattenInner,
                             "d", FlattenLeaves \cup FlattenInner),
              e \in {<<>>, << <<"a.b", Leaf("3")>> >>}}
Prefixes == {"", "p", "provider[0]"}
FlattenConfigCalls ==
    {Pending("flatten_config", <<value, prefix>>) :
        value \in FlattenValues, prefix \in Prefixes}

ApplyManifestOverridesCalls ==
    {Pending("apply_manifest_overrides", <<documents, overrides>>) :
        documents \in UNION {[1..n -> ManifestDocuments] : n \in 0..MaxDocuments},
        overrides \in UNION {[1..n -> ManifestOverrides] : n \in 0..MaxOverrides}}

VersionCalls ==
    {Pending("version", <<version_dict, tool>>) :
        version_dict \in VersionOutputs, tool \in {"ok", "exit1"}}
InstallCalls ==
    {Pending(fn, <<ictl, tool>>) :
        fn \in {"install", "upgrade"}, ictl \in Istioctls, tool \in {"ok", "exit1"}}
ManifestGenerateCalls ==
    {Pending("manifest_generate", <<ictl, tool, components, overrides>>) :
        ictl \in Istioctls, tool \in {"ok", "exit1"},
        components \in ComponentLists, overrides \in OverrideLists}

\* Names of applications and models, of 1 to 40 characters: with the model
\* istio-system the key of the label has 63 characters for the name of 19
\* characters and 64 for the one of 20.
TelemetryNames ==
    {"a", "istio-k8s", "istio-system", "istio-ingress-k8s-1", "istio-ingress-k8s-10",
     "a-really-long-application-or-model-name1"}
GenerateTelemetryLabelsCalls ==
    {Pending("generate_telemetry_labels", <<app_name, model_name>>) :
        app_name \in TelemetryNames, model_name \in TelemetryNames}

\* The workload-tracing relation: not ready, or with an otlp_grpc endpoint;
\* and the istio-ingress-config relations of the charm, each with one of the
\* remote databags of the model.
TracingEndpoints == {None, Some([host |-> "tempo.tracing.svc", port |-> 4317])}
IngressRelationLists ==
    UNION {[1..n -> IngressRemoteBags] : n \in 0..MaxAuthzRels}
IngressRelationsWith(bags) ==
    [i \in DOMAIN bags |->
        [live |-> TRUE, app |-> IngressAppName(i), remote |-> bags[i], local |-> EmptyBag]]
GetIstioctlCalls ==
    {Pending("get_istioctl", <<tracing, IngressRelationsWith(bags)>>) :
        tracing \in TracingEndpoints, bags \in IngressRelationLists}

CallInit ==
    /\ LoopIdle /\ RecvIdle /\ SendIdle
    /\ \/ called \in VersionCalls
       \/ called \in InstallCalls
       \/ called \in ManifestGenerateCalls
       \/ called \in DeepMergeCalls
       \/ called \in ApplyManifestOverridesCalls
       \/ called \in FlattenConfigCalls
       \/ called \in GenerateTelemetryLabelsCalls
       \/ called \in GetIstioctlCalls

CallVersion ==
    /\ called.fn = "version" /\ ~called.done
    /\ called' = Calls(Istioctl_version(DefaultIstioctl, called.args[1], called.args[2]))
    /\ UNCHANGED <<loopVars, recvVars, sendVars>>

CallInstall ==
    /\ called.fn = "install" /\ ~called.done
    /\ called' = Calls(Istioctl_install(called.args[1], called.args[2]))
    /\ UNCHANGED <<loopVars, recvVars, sendVars>>

CallUpgrade ==
    /\ called.fn = "upgrade" /\ ~called.done
    /\ called' = Calls(Istioctl_upgrade(called.args[1], called.args[2]))
    /\ UNCHANGED <<loopVars, recvVars, sendVars>>

CallManifestGenerate ==
    /\ called.fn = "manifest_generate" /\ ~called.done
    /\ called' = Calls(manifest_generate(called.args[1], called.args[3], called.args[4],
                                         called.args[2]))
    /\ UNCHANGED <<loopVars, recvVars, sendVars>>

CallDeepMerge ==
    /\ called.fn = "deep_merge_dict" /\ ~called.done
    /\ called' = Calls(Returned(deep_merge_dict(called.args[1], called.args[2])))
    /\ UNCHANGED <<loopVars, recvVars, sendVars>>

CallApplyManifestOverrides ==
    /\ called.fn = "apply_manifest_overrides" /\ ~called.done
    /\ called' = Calls(Returned(apply_manifest_overrides(called.args[1], called.args[2])))
    /\ UNCHANGED <<loopVars, recvVars, sendVars>>

CallFlattenConfig ==
    /\ called.fn = "flatten_config" /\ ~called.done
    /\ called' = Calls(Returned(flatten_config(called.args[1], called.args[2])))
    /\ UNCHANGED <<loopVars, recvVars, sendVars>>

CallGenerateTelemetryLabels ==
    /\ called.fn = "generate_telemetry_labels" /\ ~called.done
    /\ called' = Calls(Returned(generate_telemetry_labels(called.args[1], called.args[2])))
    /\ UNCHANGED <<loopVars, recvVars, sendVars>>

CallGetIstioctl ==
    /\ called.fn = "get_istioctl" /\ ~called.done
    /\ called' = Calls(Returned(get_istioctl(DefaultConfig, called.args[1], called.args[2])))
    /\ UNCHANGED <<loopVars, recvVars, sendVars>>

CallNext ==
    \/ CallFlattenConfig
    \/ CallGetIstioctl
    \/ CallGenerateTelemetryLabels
    \/ CallDeepMerge
    \/ CallApplyManifestOverrides
    \/ CallVersion
    \/ CallInstall
    \/ CallUpgrade
    \/ CallManifestGenerate

CallSpec == CallInit /\ [][CallNext]_vars

(***************************************************************************)
(* Properties of IstioCoreCharm._reconcile.                                *)
(*                                                                         *)
(* A property of the handler is stated on every reachable state of the     *)
(* deployment, for every unit that may handle an event there and every     *)
(* behaviour of the external calls: Run(u, fault) is the handler the       *)
(* action Reconcile(u, fault) takes from the current state.                *)
(***************************************************************************)
Run(u, fault) == reconcile(HandlerState(u), HandlerEnv, leader = u, fault)

\* The state the next handler of unit u starts from once a handler of unit v
\* has ended as out.
After(out, v, u) ==
    [ingress |-> out.ingress, metadata |-> out.metadata, cluster |-> out.cluster,
     layer |-> IF u = v THEN out.layer ELSE pebble[u], log |-> <<>>, raised |-> ""]

\* The positions of the log that hold one of the operations ops.
At(log, ops) == {i \in DOMAIN log : log[i].op \in ops}

\* The operations by which a handler acts on the world.
EXTERNAL_OPS == {"databag", "krm.reconcile", "istioctl", "pebble"}

\* The steps a handler began, in the order it began them.
RECURSIVE StepsOf(_)
StepsOf(log) ==
    IF log = <<>> THEN <<>>
    ELSE IF Head(log).op = "step" THEN <<Head(log).arg>> \o StepsOf(Tail(log))
         ELSE StepsOf(Tail(log))

\* C1: a handler that runs on a unit which is not the leader at that time
\* writes no relation databag, reconciles no scope, runs no istioctl command
\* and leaves the Pebble layer of its container alone, whoever led before and
\* however the external calls would have behaved.
C1_NonLeaderReconcileDoesNothing ==
    \A u \in Units \ {leader}, fault \in Faults :
        LET out == Run(u, fault)
        IN  /\ out.ingress = ingress
            /\ out.metadata = metadata
            /\ out.cluster = cluster
            /\ out.layer = pebble[u]
            /\ At(out.log, EXTERNAL_OPS) = {}
            /\ StepsOf(out.log) = <<>>
            /\ out.raised = ""

\* A unit that led and reconciled before (its container has the layer) has
\* lost the leadership and handles an event while the leader's handler would
\* have had the cluster to change.
C1_Witness ==
    \E u \in Units \ {leader} :
        /\ pebble[u] # None
        /\ Run(u, NoFault).log = <<[op |-> "is_leader", arg |-> "", ok |-> FALSE, data |-> <<>>]>>
        /\ Run(leader, NoFault).cluster # cluster

\* The entry of a step begun and of a scope reconciled.
StepEntry(e, name) == e.op = "step" /\ e.arg = name
ScopeEntry(e, scope) == e.op = "krm.reconcile" /\ e.arg = scope

\* The --set argument that names the extension provider at index k.
ProviderNameArg(k, name) ==
    "meshConfig.extensionProviders[" \o ToString(k) \o "].name=" \o name

\* The provider names the charm can give to the relations of the model.
ExtAuthzNames == {ext_authz_provider_name(IngressAppName(i)) : i \in IngressIds}

\* C2: in a handler of the leader, however it ends, every write to a relation
\* databag (ext-authz provider names, istio-metadata) and both publish steps
\* come before the first reconcile of a resource manager, and every ext-authz
\* provider named in the settings from which the control-plane manifest was
\* generated was written to its relation earlier in this same handler.
C2_RelationDataWrittenBeforeResources ==
    \A fault \in Faults :
        LET log == Run(leader, fault).log
            writes == At(log, {"databag"})
            reconciles == At(log, {"krm.reconcile"})
        IN  /\ \A w \in writes, r \in reconciles : w < r
            /\ \A r \in reconciles :
                   \E a, b \in 1..(r - 1) :
                       /\ StepEntry(log[a], "publish_ext_authz_provider_names")
                       /\ StepEntry(log[b], "publish_istio_metadata")
            /\ \A r \in reconciles :
                   ScopeEntry(log[r], CONTROL_PLANE_LABEL) =>
                       \A d \in DOMAIN log[r].data, k \in 0..MaxIngressRels,
                          name \in ExtAuthzNames :
                           (/\ "args" \in DOMAIN log[r].data[d].spec
                            /\ ProviderNameArg(k, name) \in Range(log[r].data[d].spec.args))
                           => \E w \in writes :
                                  /\ w < r
                                  /\ log[w].arg = "istio-ingress-config"
                                  /\ log[w].data["ext_authz_provider_name"] = name

\* A reconcile has completed with an ext-authz relation that is ready: the
\* name is in the local databag of the relation, the istio-metadata is
\* published and istiod is deployed with a provider of that name.
C2_Witness ==
    \E i \in IngressIds, r \in cluster :
        /\ ingress[i].live
        /\ "ext_authz_provider_name" \in DOMAIN ingress[i].local
        /\ \A m \in MetadataIds : metadata[m].local = IstioMetadataAppData_dump(ModelName)
        /\ r.kind = "Deployment"
        /\ ProviderNameArg(0, ingress[i].local["ext_authz_provider_name"])
               \in Range(r.spec.args)

\* C3: in a handler of the leader, however it ends, a reconcile of the
\* control-plane scope comes after a successful reconcile of the
\* gateway-apis-crds scope and a successful reconcile of the istio-crds
\* scope of the same handler, and after no failed reconcile.
C3_CrdsBeforeControlPlane ==
    \A fault \in Faults :
        LET log == Run(leader, fault).log
        IN  \A c \in DOMAIN log :
                ScopeEntry(log[c], CONTROL_PLANE_LABEL) =>
                    /\ \E g, i \in 1..(c - 1) :
                           /\ g < i
                           /\ ScopeEntry(log[g], GATEWAY_API_CRDS_LABEL) /\ log[g].ok
                           /\ ScopeEntry(log[i], ISTIO_CRDS_LABEL) /\ log[i].ok
                    /\ \A j \in 1..(c - 1) : log[j].op = "krm.reconcile" => log[j].ok

\* An earlier handler got no further than the gateway-API CRDs; now the
\* leader's handler reconciles the control plane when the Istio CRDs apply,
\* and does not when their reconcile fails or istioctl cannot generate them.
C3_Witness ==
    /\ \E r \in cluster : r.name = "gateways.gateway.networking.k8s.io"
    /\ \A r \in cluster : r.kind = "CustomResourceDefinition"
    /\ \E c \in DOMAIN Run(leader, NoFault).log :
           ScopeEntry(Run(leader, NoFault).log[c], CONTROL_PLANE_LABEL)
    /\ \A fault \in {[at |-> "krm:" \o ISTIO_CRDS_LABEL, how |-> "first"],
                     [at |-> "istioctl:base", how |-> "exit1"]} :
           /\ Run(leader, fault).raised # ""
           /\ \A c \in DOMAIN Run(leader, fault).log :
                  ~ScopeEntry(Run(leader, fault).log[c], CONTROL_PLANE_LABEL)

\* The resource manager of a scope, and the resources of the scope on a
\* cluster.
ManagerOf(scope) ==
    CASE scope = GATEWAY_API_CRDS_LABEL -> get_gateway_apis_kubernetes_resource_manager
      [] scope = ISTIO_CRDS_LABEL -> get_crds_kubernetes_resource_manager
      [] scope = CONTROL_PLANE_LABEL -> get_control_plane_kubernetes_resource_manager
      [] scope = AUTHORIZATION_POLICY_LABEL -> get_authorization_policy_resource_manager
ScopeState(c, scope) == get_deployed_resources(c, ManagerOf(scope))

\* The external call at which each exception of the model is raised.
RaisedAt(e, exception) ==
    CASE exception = "IstioctlError" -> e.op = "istioctl" /\ ~e.ok
      [] exception = "ValueError" -> e.op = "istioctl" /\ e.arg = "base" /\ e.ok
      [] exception = "ApiError" -> e.op = "krm.reconcile" /\ ~e.ok
      [] exception = "ConnectionError" -> e.op = "pebble" /\ e.arg = "add_layer" /\ ~e.ok

\* C4: when a step of a handler of the leader raises, the call that failed
\* is the last thing the handler did: the steps begun are the steps of
\* _reconcile up to the failing one, no scope is reconciled afterwards and,
\* unless the failing step is the Pebble step itself, the Pebble layer is as
\* it was; the relation databags hold what the publish steps wrote and every
\* scope reconciled before the failure is as a handler without failure
\* leaves it.
C4_FailedStepAbortsTheRest ==
    \A fault \in Faults :
        LET out == Run(leader, fault)
            clean == Run(leader, NoFault)
            log == out.log
            steps == StepsOf(log)
        IN  out.raised # "" =>
                /\ steps = SubSeq(RECONCILE_STEPS, 1, Len(steps))
                /\ RaisedAt(log[Len(log)], out.raised)
                /\ \A j \in DOMAIN log :
                       (log[j].op \in EXTERNAL_OPS /\ ~log[j].ok) => j = Len(log)
                /\ Len(steps) < Len(RECONCILE_STEPS) =>
                       /\ out.layer = pebble[leader]
                       /\ At(log, {"pebble"}) = {}
                /\ out.ingress = clean.ingress
                /\ out.metadata = clean.metadata
                /\ \A j \in At(log, {"krm.reconcile"}) :
                       log[j].ok =>
                           ScopeState(out.cluster, log[j].arg)
                               = ScopeState(clean.cluster, log[j].arg)

\* A handler of the leader failed in the control-plane step: the metadata is
\* published and both CRD scopes are on the cluster, but with one unit
\* planned there is no istiod, no authorization policy and no Pebble layer.
C4_Witness ==
    /\ planned = 1
    /\ \A m \in MetadataIds : metadata[m].local # EmptyBag
    /\ ScopeState(cluster, GATEWAY_API_CRDS_LABEL) # {}
    /\ ScopeState(cluster, ISTIO_CRDS_LABEL) # {}
    /\ ScopeState(cluster, CONTROL_PLANE_LABEL) = {}
    /\ ScopeState(cluster, AUTHORIZATION_POLICY_LABEL) = {}
    /\ \A u \in Units : pebble[u] = None

\* C5 (as the specification states it): an error raised by a step is
\* contained in the invocation, that is, no handler of the leader ends with
\* an exception that leaves _reconcile uncaught, however the external calls
\* behave.
C5_HandlerNeverEndsInUncaughtFailure ==
    \A fault \in Faults : Run(leader, fault).raised = ""

\* The scopes the charm reconciles.
SCOPES ==
    {GATEWAY_API_CRDS_LABEL, ISTIO_CRDS_LABEL, CONTROL_PLANE_LABEL,
     AUTHORIZATION_POLICY_LABEL}

\* The desired resources a handler gave to the manager of a scope, and the
\* writes it made to the relation databags, in order.
DesiredOf(log, scope) ==
    {log[j].data : j \in {i \in DOMAIN log : ScopeEntry(log[i], scope)}}
RECURSIVE WritesOf(_)
WritesOf(log) ==
    IF log = <<>> THEN <<>>
    ELSE IF Head(log).op = "databag"
         THEN <<[arg |-> Head(log).arg, data |-> Head(log).data]>> \o WritesOf(Tail(log))
         ELSE WritesOf(Tail(log))

GET_DATA == {"Receiver.get_data", "IstioMetadataRequirer.get_data"}

\* The schema each reader parses with.
SchemaOf(call) ==
    IF call = "IstioMetadataRequirer.get_data"
    THEN "IstioMetadataAppData" ELSE "IstioInfoAppData"

\* The databag holds the field of the schema.
SchemaValid(bag) == "root_namespace" \in DOMAIN bag

C9_AllRelationsOneEntryEach ==
    result.call = "Receiver.get_data_from_all_relations" =>
        /\ result.raised # "ValueError"
        /\ (\A i \in DOMAIN relations :
                relations[i] = EmptyBag \/ SchemaValid(relations[i])) =>
               /\ result.raised = ""
               /\ Len(result.value) = Len(relations)
               /\ \A i \in DOMAIN relations :
                      IF relations[i] = EmptyBag
                      THEN result.value[i] = None
                      ELSE result.value[i] =
                               Some([schema |-> "IstioInfoAppData",
                                     root_namespace |-> relations[i]["root_namespace"]])

\* get_data_from_all_relations is called with three relation instances of
\* which the second has no data and the others different data.
C9_Witness ==
    /\ result.call = "Receiver.get_data_from_all_relations"
    /\ Len(relations) = 3
    /\ SchemaValid(relations[1]) /\ SchemaValid(relations[3])
    /\ relations[1] # relations[3]
    /\ relations[2] = EmptyBag
    /\ result.raised = ""
    /\ Len(result.value) = 3

\* C10: get_data of Receiver and of IstioMetadataRequirer returns None when
\* the endpoint has no relation instance and when the remote databag of its
\* single relation instance is empty; when that databag holds the field of
\* the schema it returns the data of the reader's schema whose serialization
\* is the databag, field for field.
C10_GetDataReturnsWhatWasPublished ==
    (result.call \in GET_DATA /\ Len(relations) <= 1) =>
        /\ (relations = <<>> \/ relations = <<EmptyBag>>) =>
               result.raised = "" /\ result.value = None
        /\ (Len(relations) = 1 /\ SchemaValid(relations[1])) =>
               /\ result.raised = ""
               /\ result.value # None
               /\ Value(result.value).schema = SchemaOf(result.call)
               /\ DOMAIN Value(result.value) = {"schema", "root_namespace"}
               /\ Value(result.value).root_namespace = relations[1]["root_namespace"]
               /\ relations[1] =
                      IF result.call = "Receiver.get_data"
                      THEN IstioInfoAppData_dump(Value(result.value).root_namespace)
                      ELSE IstioMetadataAppData_dump(Value(result.value).root_namespace)

\* IstioMetadataRequirer.get_data is called on the single relation instance
\* of the endpoint, whose remote application has published, and returns
\* data.
C10_Witness ==
    /\ result.call = "IstioMetadataRequirer.get_data"
    /\ Len(relations) = 1
    /\ relations[1] = IstioMetadataAppData_dump("istio-system")
    /\ result.raised = ""
    /\ result.value # None

\* The remote databag has content that the schema of the reader rejects.
InvalidFor(call, bag) ==
    /\ bag # EmptyBag
    /\ IF call \in GET_DATA THEN ~SchemaValid(bag)
       ELSE IsNone(ProviderIngressConfigData(bag))

\* C11: a reader that is given a remote databag with content that fails the
\* validation of its schema does not raise, and returns an outcome that is
\* not the None it returns for an empty databag.
C11_InvalidDatabagGivesDistinctOutcomeWithoutRaising ==
    /\ (/\ result.call \in GET_DATA
        /\ Len(relations) = 1
        /\ InvalidFor(result.call, relations[1]))
       => result.raised = "" /\ result.value # None
    /\ (/\ result.call = "IngressConfigRequirer.get_provider_ext_authz_info"
        /\ InvalidFor(result.call, relations[result.rel]))
       => result.raised = "" /\ result.value # None

(***************************************************************************)
(* Properties of the istio-ingress-config relation in _reconcile.          *)
(***************************************************************************)
\* The remote databag has content but not a whole ext-authz configuration:
\* the schema rejects it, or one of service name and port is missing.
PartialOrInvalid(bag) ==
    /\ bag # EmptyBag
    /\ \/ IsNone(ProviderIngressConfigData(bag))
       \/ ~({"ext_authz_service_name", "ext_authz_port"} \subseteq DOMAIN bag)

\* The handler of the leader from the current state with the remote databag
\* of the i-th istio-ingress-config relation empty.
RunWithEmptyRemote(i, fault) ==
    reconcile([HandlerState(leader) EXCEPT !.ingress[i].remote = EmptyBag],
              HandlerEnv, TRUE, fault)

C17_LeaderPublishesModelNameAsRootNamespace ==
    \A fault \in Faults, m \in MetadataIds :
        metadata[m].live =>
            Run(leader, fault).metadata[m].local = [k \in {"root_namespace"} |-> ModelName]

\* A handler of the leader has published the metadata and failed in the
\* step after: the databag of the relation holds the name of the model
\* while the cluster has the one resource applied before the API error and
\* no container has the Pebble layer.
C17_Witness ==
    \E m \in MetadataIds :
        /\ metadata[m].live
        /\ metadata[m].local = [k \in {"root_namespace"} |-> ModelName]
        /\ Cardinality(cluster) = 1
        /\ \A u \in Units : pebble[u] = None

(***************************************************************************)
(* Properties of Istioctl.manifest_generate.                               *)
(***************************************************************************)
\* The calls of manifest_generate the charm makes from the current state:
\* the components and the overrides.
MANIFEST_CALLS ==
    {[components |-> ISTIO_CRDS_COMPONENTS, overrides |-> <<>>],
     [components |-> CONTROL_PLANE_COMPONENTS, overrides |-> <<construct_hpa(1)>>]}

\* The command line of a call, and the call with a binary that behaves as
\* tool.
ManifestCommand(call) ==
    <<"manifest", "generate">>
        \o Istioctl_args(get_istioctl(HandlerEnv.parsed_config, HandlerEnv.tracing, ingress))
        \o components_args(call.components)
ManifestGenerate(call, tool) ==
    manifest_generate(get_istioctl(HandlerEnv.parsed_config, HandlerEnv.tracing, ingress),
                      call.components, call.overrides, tool)

\* C20 (as the specification states it): when the istioctl process exits
\* non-zero, manifest_generate raises IstioctlError whose message includes
\* the return code and which carries the return code and what the process
\* wrote to its standard error; it returns no manifest, and the command was
\* run once.
C20_FailedIstioctlRaisesWithCodeAndStderr ==
    \A call \in MANIFEST_CALLS :
        LET process == IstioctlBinary(ManifestCommand(call), "exit1")
            run == ManifestGenerate(call, "exit1")
        IN  /\ run.raised = "IstioctlError"
            /\ ToString(process.returncode) \in Range(run.message)
            /\ run.returncode = process.returncode
            /\ run.output = <<>>
            /\ run.commands = <<ManifestCommand(call)>>
            /\ run.stderr = Some(process.stderr)

(***************************************************************************)
(* Properties of the Sender and of the publishing side of the libraries.   *)
(***************************************************************************)
\* The local databag holds the field of the schema with the value the
\* Sender constructed with root_namespace should publish.
UpToDate(bag, root_namespace) ==
    /\ "root_namespace" \in DOMAIN bag
    /\ bag["root_namespace"] = root_namespace

\* C13: Sender.is_ready() is true exactly when the local application
\* databag of every relation instance of the endpoint validates against
\* the schema and holds, field for field, the data the Sender should
\* publish now; one relation instance with empty, invalid or stale local
\* data makes it false.
C13_IsReadyIffEveryRelationUpToDate ==
    Sender_is_ready(sent, IstioInfoProvider_data(toSend))
        <=> \A i \in DOMAIN sent : UpToDate(sent[i], toSend)

\* The first relation instance holds the data of the Sender and the second
\* data that does not validate: the Sender is not ready.
C13_Witness ==
    /\ Len(sent) = 2
    /\ UpToDate(sent[1], toSend)
    /\ sent[2] \in LegacyBags
    /\ ~Sender_is_ready(sent, IstioInfoProvider_data(toSend))

\* The relations of an endpoint as IstioMetadataProvider sees them.
AsMetadataRelations(rels) == [i \in DOMAIN rels |-> [live |-> TRUE, local |-> rels[i]]]

\* C14: whatever the local databags hold, after send_data with data d the
\* Sender constructed with d is ready, after a second send_data with d it
\* is still ready, and a third changes no databag; likewise a repeated
\* IstioMetadataProvider.publish of one namespace changes no databag.
C14_PublishConverges ==
    \A root_namespace \in Namespaces :
        LET d == IstioInfoProvider_data(root_namespace)
            once == Sender_send_data(sent, d)
            twice == Sender_send_data(once, d)
            md == IstioMetadataProvider_publish(AsMetadataRelations(sent), root_namespace)
        IN  /\ Sender_is_ready(once, d)
            /\ Sender_is_ready(twice, d)
            /\ Sender_send_data(twice, d) = twice
            /\ IstioMetadataProvider_publish(md, root_namespace) = md

\* The leader has handled an event of the Sender with two relation
\* instances of which one had no data and the other stale data, and the
\* Sender is ready.
C14_Witness ==
    /\ handled.is_leader
    /\ Len(handled.before) = 2
    /\ \E i, j \in DOMAIN handled.before :
           /\ handled.before[i] = EmptyBag
           /\ "root_namespace" \in DOMAIN handled.before[j]
           /\ ~UpToDate(handled.before[j], toSend)
    /\ sent # handled.before
    /\ Sender_is_ready(sent, IstioInfoProvider_data(toSend))

\* The relations of an endpoint when none has been written to.
Fresh(rels) == [i \in DOMAIN rels |-> EmptyBag]

\* C15 (as the specification states it): after a publish, the local
\* application databag of every relation instance holds exactly the
\* serialization of the data published, whatever an earlier publish of the
\* same library wrote there: for Sender.send_data, for
\* IstioMetadataProvider.publish and for IngressConfigProvider.publish.
C15_PublishLeavesExactlyTheSerialization ==
    /\ \A root_namespace \in Namespaces, i \in DOMAIN sent :
           Sender_send_data(sent, IstioInfoProvider_data(root_namespace))[i]
               = IstioInfoAppData_dump(root_namespace)
    /\ \A earlier, later \in Namespaces, i \in DOMAIN sent :
           IstioMetadataProvider_publish(
               IstioMetadataProvider_publish(AsMetadataRelations(Fresh(sent)), earlier),
               later)[i].local
               = IstioMetadataAppData_dump(later)
    /\ \A name \in ServiceNames, port \in Ports, i \in DOMAIN provided :
           (IsNone(port) \/ ConvertibleToInt(Value(port))) =>
               IngressConfigProvider_publish(provided, name, port)[i]
                   = ProviderIngressConfigData_dump(name, port)

\* C16: an event handled by a unit that is not the leader, be it
\* relation_joined, leader_elected, the refresh event or another event,
\* leaves the local application databag of every relation instance of the
\* Sender as it was.
C16_NonLeaderWritesNothing ==
    (handled.event # "" /\ ~handled.is_leader) => sent = handled.before

\* A unit that does not lead has handled relation_joined or leader_elected
\* with a relation instance without data, where the leader would have
\* written.
C16_Witness ==
    /\ handled.event \in {"relation_joined", "leader_elected"}
    /\ ~handled.is_leader
    /\ handled.unit # leader
    /\ \E i \in DOMAIN sent : sent[i] = EmptyBag
    /\ ~Sender_is_ready(sent, IstioInfoProvider_data(toSend))
    /\ handle_send_data_event(sent, IstioInfoProvider_data(toSend), TRUE) # sent

C19_OneDataChangedPerObservedEvent ==
    IF notice.event \in {"relation_changed"} \cup Range(REFRESH_EVENT)
    THEN notice.emitted = <<[event |-> "data_changed", payload |-> EmptyBag]>>
    ELSE notice.emitted = <<>>

\* The refresh event is handled while the endpoint has a relation instance
\* with data, and data_changed is emitted although no databag changed.
C19_Witness ==
    /\ notice.event \in Range(REFRESH_EVENT)
    /\ Len(notice.emitted) = 1
    /\ \E i \in DOMAIN relations : relations[i] # EmptyBag

(***************************************************************************)
(* Properties of the control-plane scope.                                  *)
(***************************************************************************)
\* The istiod HorizontalPodAutoscaler among resources, and the one istioctl
\* generates for the control-plane components.
IstiodHpas(resources) ==
    {r \in resources : r.kind = "HorizontalPodAutoscaler" /\ r.name = "istiod"
                           /\ r.namespace = Some(ModelName)}
GeneratedHpa ==
    CHOOSE r \in IstiodHpas(Range(IstioctlBinary(components_args(CONTROL_PLANE_COMPONENTS),
                                                 "ok").stdout)) : TRUE

\* The HPA is pinned to n replicas and has the other fields as generated.
PinnedTo(hpa, n) ==
    /\ DOMAIN hpa.spec = DOMAIN GeneratedHpa.spec
    /\ hpa.spec["minReplicas"] = n
    /\ hpa.spec["maxReplicas"] = n
    /\ \A k \in DOMAIN GeneratedHpa.spec \ {"minReplicas", "maxReplicas"} :
           hpa.spec[k] = GeneratedHpa.spec[k]

\* C28: in every state the scale events can lead to, a handler of the
\* leader that observes a planned unit count n >= 1 gives the control-plane
\* manager a desired set with exactly one istiod HorizontalPodAutoscaler,
\* with minReplicas = maxReplicas = n and the other fields as istioctl
\* generated them; and when the handler completes, the autoscaler on the
\* cluster has these bounds.
C28_HpaPinnedToPlannedUnits ==
    planned >= 1 =>
        \A fault \in Faults :
            LET out == Run(leader, fault)
            IN  /\ \A i \in DOMAIN out.log :
                       ScopeEntry(out.log[i], CONTROL_PLANE_LABEL) =>
                           /\ Cardinality(IstiodHpas(Range(out.log[i].data))) = 1
                           /\ \A hpa \in IstiodHpas(Range(out.log[i].data)) :
                                  PinnedTo(hpa, planned)
                /\ out.raised = "" =>
                       /\ Cardinality(IstiodHpas(out.cluster)) = 1
                       /\ \A hpa \in IstiodHpas(out.cluster) : PinnedTo(hpa, planned)

\* The application was scaled to two units and a handler has pinned the
\* autoscaler to two replicas.
C28_Witness ==
    /\ planned = 2
    /\ \E hpa \in IstiodHpas(cluster) : PinnedTo(hpa, 2)
    /\ GeneratedHpa.spec["minReplicas"] = 1 /\ GeneratedHpa.spec["maxReplicas"] = 5

Labelled(c, scope) ==
    {r \in c : \A k \in DOMAIN ManagerOf(scope).labels :
                   k \in DOMAIN r.labels /\ r.labels[k] = ManagerOf(scope).labels[k]}
ConfinedTo(before, after, scope) ==
    /\ before \ after \subseteq Labelled(before, scope)
    /\ after \ before \subseteq Labelled(after, scope)
    /\ \A other \in SCOPES \ {scope} :
           /\ Labelled(after, other) = Labelled(before, other)
           /\ ScopeState(after, other) = ScopeState(before, other)

\* C30: the ownership labels of the four scopes are pairwise distinct, no
\* resource bears those of two scopes, and on every cluster the handlers
\* can produce, krm.reconcile of a scope with the desired list the charm
\* gives it (whether it succeeds or fails part-way) and krm.delete of a
\* scope change only resources bearing the labels of that scope; the
\* resources of the other scopes, the CRDs of the other CRD scope among
\* them, are neither deleted nor rewritten.
C30_ScopesAreIsolated ==
    /\ \A s \in SCOPES :
           \A t \in SCOPES \ {s} :
               /\ ManagerOf(s).labels # ManagerOf(t).labels
               /\ Labelled(cluster, s) \cap Labelled(cluster, t) = {}
    /\ \A s \in SCOPES :
           \A desired \in DesiredOf(Run(leader, NoFault).log, s) \cup {<<>>},
              how \in {"ok", "first", "deleted"} :
               ConfinedTo(cluster,
                          krm_reconcile(cluster, ManagerOf(s), desired, how).cluster, s)
    /\ \A s \in Range(resource_manager_factories) :
           ConfinedTo(cluster, krm_delete(cluster, get_resource_manager(s)), s)
    /\ \A u \in Units :
           Labelled(remove(HandlerState(u), leader = u).cluster, AUTHORIZATION_POLICY_LABEL)
               = Labelled(cluster, AUTHORIZATION_POLICY_LABEL)

\* The CRDs of both CRD scopes and the other two scopes are deployed, the
\* leader's handler would rewrite the Istio CRDs, and a delete of the
\* istio-crds scope removes CRDs while those of the Gateway API stay.
C30_Witness ==
    /\ \A s \in SCOPES : ScopeState(cluster, s) # {}
    /\ DesiredOf(Run(leader, NoFault).log, ISTIO_CRDS_LABEL) # {<<>>}
    /\ krm_delete(cluster, get_resource_manager(ISTIO_CRDS_LABEL)) # cluster
    /\ ScopeState(krm_delete(cluster, get_resource_manager(ISTIO_CRDS_LABEL)),
                  GATEWAY_API_CRDS_LABEL) # {}

\* C31 (as the specification states it): once the leader has handled the
\* remove event, the cluster holds no resource that bears the ownership
\* labels of any of the four scopes the charm reconciles.
C31_TeardownIsComplete ==
    \A s \in SCOPES :
        Labelled(remove(HandlerState(leader), TRUE).cluster, s) = {}

\* C37: whatever the planned unit count and whichever external call
\* fails, a handler gives the control-plane manager no
\* HorizontalPodAutoscaler whose minReplicas or maxReplicas is below 1, and
\* it runs istioctl for the control-plane components only when the planned
\* unit count is at least 1.
C37_NoZeroReplicaHpaIsSubmitted ==
    \A u \in Units, fault \in Faults :
        LET out == Run(u, fault)
        IN  /\ \A i \in DOMAIN out.log :
                   ScopeEntry(out.log[i], CONTROL_PLANE_LABEL) =>
                       \A r \in Range(out.log[i].data) :
                           r.kind = "HorizontalPodAutoscaler" =>
                               /\ r.spec["minReplicas"] >= 1
                               /\ r.spec["maxReplicas"] >= 1
            /\ (\E i \in DOMAIN out.log :
                    out.log[i].op = "istioctl" /\ out.log[i].arg = "control-plane")
                   => planned >= 1

\* No unit is planned: the handler of the leader generates the CRDs with
\* istioctl, does not generate the control plane and reaches the
\* control-plane manager without an autoscaler; and with one unit planned
\* it would submit the autoscaler.
C37_Witness ==
    /\ planned = 0
    /\ \E i \in DOMAIN Run(leader, NoFault).log :
           Run(leader, NoFault).log[i].op = "istioctl"
               /\ Run(leader, NoFault).log[i].arg = "base"
    /\ DesiredOf(Run(leader, NoFault).log, CONTROL_PLANE_LABEL) = {<<>>}
    /\ \E desired \in DesiredOf(reconcile(HandlerState(leader),
                                           [HandlerEnv EXCEPT !.planned = 1],
                                           TRUE, NoFault).log,
                                 CONTROL_PLANE_LABEL) :
           IstiodHpas(Range(desired)) # {}

(***************************************************************************)
(* Properties of the authorization-policy scope.                           *)
(***************************************************************************)
\* The handler of the leader from state st with the option
\* global-allow-nothing-policy set to option.
RunWithPolicyOption(st, option, fault) ==
    reconcile(st, [HandlerEnv EXCEPT !.parsed_config.global_allow_nothing_policy = option],
              TRUE, fault)

\* The identities of the two global allow-nothing policies of the
\* application istio-k8s in the model istio-system.
AllowNothingPolicies ==
    {<<"AuthorizationPolicy", Some("istio-system"),
       "istio-k8s-istio-system-policy-global-allow-nothing-l4">>,
     <<"AuthorizationPolicy", Some("istio-system"),
       "istio-k8s-istio-system-policy-global-allow-nothing-waypoints">>}
Identities(resources) == {Identity(r) : r \in resources}

SentinelBag ==
    ("ext_authz_service_name" :> FAKE_EXT_AUTHZ_SERVICE_NAME)
        @@ ("ext_authz_port" :> FAKE_EXT_AUTHZ_PORT)
SettingsOf(rels) ==
    get_istioctl(HandlerEnv.parsed_config, HandlerEnv.tracing, rels).setting_overrides

\* The handler contributes no extension provider for the i-th relation.
NoProviderFor(out, i) ==
    \A e \in Range(SettingsOf(out.ingress)) :
        e[2] # ext_authz_provider_name(IngressAppName(i))

\* C32 (as the specification states it): a relation whose remote databag
\* holds the fake service name and port is treated by the handler like a
\* relation with an empty remote databag: no extension provider of the
\* settings is that of the relation, and no provider name is written to
\* the relation, whose local databag ends as it does with the remote
\* databag empty.
C32_SentinelIsTreatedAsNoData ==
    \A i \in IngressIds :
        (ingress[i].live /\ ingress[i].remote = SentinelBag) =>
            \A fault \in Faults :
                LET out == Run(leader, fault)
                IN  /\ NoProviderFor(out, i)
                    /\ out.ingress[i].local = ingress[i].local
                    /\ out.ingress[i].local = RunWithEmptyRemote(i, fault).ingress[i].local
                    /\ \A w \in At(out.log, {"databag"}) :
                           out.log[w].arg # "istio-ingress-config"

\* Ext-authz configurations an ingress charm may publish, and the provider
\* name the handler of the leader leaves in the local databag of the i-th
\* relation when the remote databag of that relation is bag.
AuthzBags ==
    {("ext_authz_service_name" :> name) @@ ("ext_authz_port" :> port) :
        name \in {"oauth-service", "other-service"}, port \in {"8080", "5432"}}
RunWithRemote(i, bag) ==
    reconcile([HandlerState(leader) EXCEPT !.ingress[i].remote = bag,
                                           !.ingress[i].local = EmptyBag],
              HandlerEnv, TRUE, NoFault)
PublishedName(i, bag) ==
    RunWithRemote(i, bag).ingress[i].local["ext_authz_provider_name"]

\* C33 (as the specification states it): the provider name published to a
\* relation is determined by the remote application and by the service
\* name and port the peer supplied: two configurations give the same name
\* exactly when they agree on service name and port.
C33_ProviderNameFollowsServiceAndPort ==
    \A i \in IngressIds :
        ingress[i].live =>
            \A b1, b2 \in AuthzBags :
                (PublishedName(i, b1) = PublishedName(i, b2)) <=> (b1 = b2)

\* The indices of the extension providers of settings that have the name,
\* and a remote databag with a service name and a port that is not the fake
\* configuration.
ProviderIndices(settings, name) ==
    {k \in 0..MaxAuthzRels :
        <<"meshConfig.extensionProviders[" \o ToString(k) \o "].name", name>>
            \in Range(settings)}
RealAuthzConfig(relation) == is_ready(relation) /\ ~is_fake_authz_config(relation)

\* C35 (as the specification states it): each istio-ingress-config relation
\* whose remote databag holds a valid service name and port other than the
\* fake ones has exactly one extension provider in the settings of
\* istioctl, whatever the other relations of the endpoint hold and wherever
\* they stand.
C35_EachRealRelationContributesOneProvider ==
    (called.fn = "get_istioctl" /\ called.done) =>
        \A i \in DOMAIN called.args[2] :
            RealAuthzConfig(called.args[2][i]) =>
                Cardinality(ProviderIndices(called.out.value.setting_overrides,
                                            ext_authz_provider_name(IngressAppName(i)))) = 1

\* The names of the extension providers in the settings of istioctl.
ProviderNames(settings) ==
    {e[2] : e \in {x \in Range(settings) :
                      \E k \in 0..MaxAuthzRels :
                          x[1] = "meshConfig.extensionProviders[" \o ToString(k) \o "].name"}}

\* C36 (as the specification states it): when a handler of the leader has
\* completed, the local databag of each istio-ingress-config relation holds
\* a provider name exactly when the settings of istioctl of that handler
\* hold the extension provider of the relation, and the name in the databag
\* is the name of that provider.
C36_PublishedNameMatchesProviderInSettings ==
    \A fault \in Faults :
        LET out == Run(leader, fault)
        IN  out.raised = "" =>
                \A i \in IngressIds :
                    out.ingress[i].live =>
                        LET bag == out.ingress[i].local
                            name == ext_authz_provider_name(IngressAppName(i))
                        IN  /\ "ext_authz_provider_name" \in DOMAIN bag
                                   <=> name \in ProviderNames(SettingsOf(out.ingress))
                            /\ "ext_authz_provider_name" \in DOMAIN bag
                                   => bag["ext_authz_provider_name"] = name

\* The key prefix of the extension provider at index k, the entries of the
\* settings under it, the indices in use and the value of a setting.
ProviderPrefix(k) == "meshConfig.extensionProviders[" \o ToString(k) \o "]."
HasPrefix(key, prefix) ==
    Len(key) >= Len(prefix) /\ SubSeq(key, 1, Len(prefix)) = prefix
EntriesAt(settings, k) ==
    {i \in DOMAIN settings : HasPrefix(settings[i][1], ProviderPrefix(k))}
IndicesInUse(settings) == {k \in 0..(MaxAuthzRels + 1) : EntriesAt(settings, k) # {}}
Setting(settings, key) ==
    IF key \in DictKeys(settings) THEN Some(DictGet(settings, key)) ELSE None

\* The relations that _external_authorizer_providers turns into providers:
\* those with a real configuration that no fake configuration precedes.
RECURSIVE Authorizers(_, _)
Authorizers(rels, i) ==
    IF i > Len(rels) \/ is_fake_authz_config(rels[i]) THEN <<>>
    ELSE (IF RealAuthzConfig(rels[i]) THEN <<i>> ELSE <<>>) \o Authorizers(rels, i + 1)

\* The keys under the index k, without the prefix of the index; and the
\* flattened keys of the tracing provider and of an external authorizer.
KeysAt(settings, k) ==
    {SubSeq(settings[i][1], Len(ProviderPrefix(k)) + 1, Len(settings[i][1])) :
        i \in EntriesAt(settings, k)}
TRACING_PROVIDER_KEYS == {"name", "opentelemetry.port", "opentelemetry.service"}
EXT_AUTHZ_PROVIDER_KEYS ==
    {"name", "envoyExtAuthzHttp.service", "envoyExtAuthzHttp.port",
     "envoyExtAuthzHttp.includeRequestHeadersInCheck[0]",
     "envoyExtAuthzHttp.includeRequestHeadersInCheck[1]",
     "envoyExtAuthzHttp.headersToUpstreamOnAllow[0]",
     "envoyExtAuthzHttp.headersToUpstreamOnAllow[1]",
     "envoyExtAuthzHttp.headersToUpstreamOnAllow[2]",
     "envoyExtAuthzHttp.headersToUpstreamOnAllow[3]",
     "envoyExtAuthzHttp.headersToUpstreamOnAllow[4]",
     "envoyExtAuthzHttp.headersToDownstreamOnAllow[0]",
     "envoyExtAuthzHttp.headersToDownstreamOnDeny[0]",
     "envoyExtAuthzHttp.headersToDownstreamOnDeny[1]"}
GLOBAL_TRACING_KEYS ==
    {"meshConfig.enableTracing", "meshConfig.defaultProviders.tracing[0]",
     "meshConfig.defaultConfig.tracing.sampling"}

\* C39: in the settings _get_istioctl builds, the extension providers have
\* the indices 0..n-1; the tracing provider is there exactly when the
\* workload-tracing endpoint is, and then at index 0; the external
\* authorizers follow in relation order; every provider has all its
\* flattened keys, under its own index, so that no key of one provider is
\* that of another; and the three global tracing settings are there exactly
\* when the tracing provider is.
C39_ExtensionProvidersAreIndexedInOrder ==
    (called.fn = "get_istioctl" /\ called.done) =>
        LET tracing == called.args[1]
            rels == called.args[2]
            settings == called.out.value.setting_overrides
            authz == Authorizers(rels, 1)
            offset == IF IsNone(tracing) THEN 0 ELSE 1
            n == offset + Len(authz)
        IN  /\ IndicesInUse(settings) = 0..(n - 1)
            /\ ~IsNone(tracing) <=>
                   "otel-tracing" \in ProviderNames(settings)
            /\ ~IsNone(tracing) =>
                   /\ Setting(settings, ProviderPrefix(0) \o "name") = Some("otel-tracing")
                   /\ Setting(settings, ProviderPrefix(0) \o "opentelemetry.service")
                          = Some(Value(tracing).host)
                   /\ Setting(settings, ProviderPrefix(0) \o "opentelemetry.port")
                          = Some(ToString(Value(tracing).port))
                   /\ KeysAt(settings, 0) = TRACING_PROVIDER_KEYS
                   /\ Cardinality(EntriesAt(settings, 0)) = Cardinality(TRACING_PROVIDER_KEYS)
            /\ \A j \in DOMAIN authz :
                   LET k == offset + j - 1
                       info == rels[authz[j]].remote
                   IN  /\ Setting(settings, ProviderPrefix(k) \o "name")
                              = Some("ext_authz-" \o rels[authz[j]].app)
                       /\ Setting(settings, ProviderPrefix(k) \o "envoyExtAuthzHttp.service")
                              = Some(info["ext_authz_service_name"])
                       /\ Setting(settings, ProviderPrefix(k) \o "envoyExtAuthzHttp.port")
                              = Some(info["ext_authz_port"])
                       /\ KeysAt(settings, k) = EXT_AUTHZ_PROVIDER_KEYS
                       /\ Cardinality(EntriesAt(settings, k))
                              = Cardinality(EXT_AUTHZ_PROVIDER_KEYS)
            /\ \A key \in GLOBAL_TRACING_KEYS :
                   key \in DictKeys(settings) <=> ~IsNone(tracing)
            /\ Cardinality(DictKeys(settings)) = Len(settings)

\* _get_istioctl was called with a tracing endpoint and three relations
\* with a real configuration: the settings hold the tracing provider at
\* index 0 and the three authorizers at 1, 2 and 3.
C39_Witness ==
    /\ called.fn = "get_istioctl" /\ called.done
    /\ ~IsNone(called.args[1])
    /\ Authorizers(called.args[2], 1) = <<1, 2, 3>>
    /\ IndicesInUse(called.out.value.setting_overrides) = 0..3
    /\ Setting(called.out.value.setting_overrides, ProviderPrefix(3) \o "name")
           = Some("ext_authz-ingress3")

(***************************************************************************)
(* Properties of generate_telemetry_labels.                                *)
(***************************************************************************)
\* The key that names the model and the application in full.
FullTelemetryKey(app_name, model_name) ==
    "charms.canonical.com/" \o model_name \o "." \o app_name \o ".telemetry"

RECURSIVE HasPath(_, _), AtPath(_, _)
\* value holds a mapping entry at each key of path in turn.
HasPath(value, path) ==
    \/ path = <<>>
    \/ /\ value.t = "dict"
       /\ Head(path) \in DictKeys(value.items)
       /\ HasPath(DictGet(value.items, Head(path)), Tail(path))
AtPath(value, path) ==
    IF path = <<>> THEN value ELSE AtPath(DictGet(value.items, Head(path)), Tail(path))

KeysOf(d) == [i \in DOMAIN d |-> d[i][1]]

\* C22: the command line of manifest generate, install and upgrade holds,
\* after the subcommand, exactly one "--set key=value" pair per key of the
\* base settings merged with the caller's overrides: the base keys profile
\* and values.global.istioNamespace first and then the caller's other keys
\* in their order, each with the caller's value if the caller gives one;
\* manifest generate adds one "--set components.<name>.enabled=true" pair
\* per requested component, in list order.
C22_ArgsAreOneSetPairPerMergedSetting ==
    (called.fn \in {"install", "upgrade", "manifest_generate"} /\ called.done) =>
        LET ictl == called.args[1]
            caller == ictl.setting_overrides
            base == << <<"profile", ictl.profile>>,
                       <<"values.global.istioNamespace", ictl.namespace>> >>
            New(k) == k \notin DictKeys(base)
            keys == KeysOf(base) \o SelectSeq(KeysOf(caller), New)
            value(k) == IF k \in DictKeys(caller) THEN DictGet(caller, k)
                        ELSE DictGet(base, k)
            components == IF called.fn = "manifest_generate" THEN called.args[3] ELSE <<>>
            subcommand == CASE called.fn = "install" -> <<"install", "-y">>
                            [] called.fn = "upgrade" -> <<"upgrade", "-y">>
                            [] called.fn = "manifest_generate" -> <<"manifest", "generate">>
            command == called.out.commands[1]
            args == SubSeq(command, 3, Len(command))
        IN  /\ Len(called.out.commands) = 1
            /\ SubSeq(command, 1, 2) = subcommand
            /\ Len(args) = 2 * Len(keys) + 2 * Len(components)
            /\ \A i \in DOMAIN keys :
                   /\ args[2 * i - 1] = "--set"
                   /\ args[2 * i] = keys[i] \o "=" \o value(keys[i])
            /\ \A j \in DOMAIN components :
                   /\ args[2 * Len(keys) + 2 * j - 1] = "--set"
                   /\ args[2 * Len(keys) + 2 * j]
                          = "components." \o components[j] \o ".enabled=true"

\* manifest generate for the control-plane components with a caller that
\* sets the profile and one key of its own.
C22_Witness ==
    /\ called.fn = "manifest_generate" /\ called.done
    /\ called.args[3] = CONTROL_PLANE_COMPONENTS
    /\ called.args[1].setting_overrides = << <<"k1", "v1">>, <<"profile", "v2">> >>
    /\ called.out.commands[1] =
           <<"manifest", "generate", "--set", "profile=v2",
             "--set", "values.global.istioNamespace=istio-system", "--set", "k1=v1",
             "--set", "components.pilot.enabled=true", "--set", "components.cni.enabled=true",
             "--set", "components.ztunnel.enabled=true">>

RECURSIVE MergedAs(_, _, _)
\* merged is base deep-merged with updates: an entry of updates is merged
\* in the same way if both sides hold a mapping there and else replaces the
\* entry of base; the other entries of base are kept.
MergedAs(base, updates, merged) ==
    /\ merged.t = "dict"
    /\ DictKeys(merged.items) = DictKeys(base.items) \cup DictKeys(updates.items)
    /\ \A i, j \in DOMAIN merged.items : merged.items[i][1] = merged.items[j][1] => i = j
    /\ \A k \in DictKeys(updates.items) :
           IF /\ k \in DictKeys(base.items)
              /\ DictGet(base.items, k).t = "dict"
              /\ DictGet(updates.items, k).t = "dict"
           THEN MergedAs(DictGet(base.items, k), DictGet(updates.items, k),
                         DictGet(merged.items, k))
           ELSE DictGet(merged.items, k) = DictGet(updates.items, k)
    /\ \A k \in DictKeys(base.items) \ DictKeys(updates.items) :
           DictGet(merged.items, k) = DictGet(base.items, k)

\* C23: deep merge of an override into a document: for every key of the
\* override, two mappings are merged recursively key by key and any other
\* pair of values (sequences included) leaves the override's value; every
\* key of the document that the override lacks keeps its value, at every
\* nesting level.
C23_DeepMergeRecursesOnMappingsOnly ==
    (called.fn = "deep_merge_dict" /\ called.done) =>
        MergedAs(called.args[1], called.args[2], called.out.value)

\* A merge over three levels: a.x.p is replaced, a.x.q, a.y and b are kept
\* and the list under a.y would be replaced as a whole.
C23_Witness ==
    /\ called.fn = "deep_merge_dict" /\ called.done
    /\ called.args[1] =
           Dict(<< <<"a", Dict(<< <<"x", Dict(<< <<"p", Leaf("1")>>, <<"q", Leaf("3")>> >>)>>,
                                  <<"y", List(<<Leaf("2")>>)>> >>)>>,
                   <<"b", Leaf("1")>> >>)
    /\ called.args[2] =
           Dict(<< <<"a", Dict(<< <<"x", Dict(<< <<"p", List(<<Leaf("2")>>)>> >>)>> >>)>> >>)
    /\ called.out.value =
           Dict(<< <<"a", Dict(<< <<"x", Dict(<< <<"p", List(<<Leaf("2")>>)>>,
                                                <<"q", Leaf("3")>> >>)>>,
                                  <<"y", List(<<Leaf("2")>>)>> >>)>>,
                   <<"b", Leaf("1")>> >>)

\* C24: a document is overridden exactly when some override has the same
\* (kind, namespace, name), a document and an override without namespace
\* included: the ConfigMap X with data {a: 1} and the override ConfigMap X
\* with data {b: 2}, both without namespace, merge to data {a: 1, b: 2}.
C24_OverriddenExactlyWhenSameIdentity ==
    (called.fn = "apply_manifest_overrides" /\ called.done) =>
        \A d \in DOMAIN called.args[1] :
            LET doc == called.args[1][d]
                same == {o \in DOMAIN called.args[2] :
                            Identity(called.args[2][o]) = Identity(doc)}
            IN  /\ (same = {}) <=> (called.out.value[d] = doc)
                /\ (/\ doc = Resource("ConfigMap", "X", None, [k \in {"a"} |-> "1"])
                    /\ called.args[2]
                           = <<Resource("ConfigMap", "X", None, [k \in {"b"} |-> "2"])>>)
                   => called.out.value[d].spec = ("a" :> "1") @@ ("b" :> "2")

\* C25: _apply_manifest_overrides emits as many documents as it is given,
\* in their order and under their identity; a document no override matches
\* is emitted unchanged; a matched document takes the fields of the first
\* matching override of the list and keeps its other fields, whatever the
\* later overrides hold; and manifest_generate without overrides returns
\* the output of the tool as it is.
C25_UnmatchedUnchangedFirstMatchOnly ==
    /\ (called.fn = "apply_manifest_overrides" /\ called.done) =>
           /\ Len(called.out.value) = Len(called.args[1])
           /\ \A d \in DOMAIN called.args[1] :
                  LET doc == called.args[1][d]
                      emitted == called.out.value[d]
                      matching == {o \in DOMAIN called.args[2] :
                                      is_same_resource(doc, called.args[2][o])}
                      first == called.args[2][CHOOSE o \in matching :
                                                  \A o2 \in matching : o <= o2]
                  IN  IF matching = {} THEN emitted = doc
                      ELSE /\ [emitted EXCEPT !.spec = doc.spec] = doc
                           /\ DOMAIN emitted.spec = DOMAIN doc.spec \cup DOMAIN first.spec
                           /\ \A k \in DOMAIN first.spec : emitted.spec[k] = first.spec[k]
                           /\ \A k \in DOMAIN doc.spec \ DOMAIN first.spec :
                                  emitted.spec[k] = doc.spec[k]
    /\ (/\ called.fn = "manifest_generate" /\ called.done
        /\ called.args[2] = "ok" /\ called.args[4] = <<>>) =>
           called.out.output = IstioctlBinary(called.out.commands[1], "ok").stdout

\* Two documents and two overrides that both match the first document: it
\* takes b from the first override and nothing from the second, the other
\* document is emitted as it came.
C25_Witness ==
    /\ called.fn = "apply_manifest_overrides" /\ called.done
    /\ called.args[1] = <<Resource("ConfigMap", "X", Some(ModelName), [k \in {"a"} |-> "1"]),
                           Resource("ConfigMap", "Y", Some(ModelName), [k \in {"a"} |-> "1"])>>
    /\ called.args[2] =
           <<Resource("ConfigMap", "X", Some(ModelName), [k \in {"b"} |-> "2"]),
             Resource("ConfigMap", "X", Some(ModelName), ("a" :> "9") @@ ("c" :> "3"))>>
    /\ called.out.value[1].spec = ("a" :> "1") @@ ("b" :> "2")
    /\ called.out.value[2] = called.args[1][2]

(***************************************************************************)
(* Properties of flatten_config.  A leaf of a nested value is addressed by *)
(* its path, the positions of the items to descend into.                   *)
(***************************************************************************)
ItemAt(value, i) == IF value.t = "dict" THEN value.items[i][2] ELSE value.items[i]

RECURSIVE LeafPaths(_)
LeafPaths(value) ==
    IF value.t = "leaf" THEN {<<>>}
    ELSE UNION {{<<i>> \o path : path \in LeafPaths(ItemAt(value, i))} :
                   i \in DOMAIN value.items}

RECURSIVE LeafAt(_, _)
LeafAt(value, path) ==
    IF path = <<>> THEN value.v ELSE LeafAt(ItemAt(value, Head(path)), Tail(path))

\* The key path of a leaf: "." and the key for a mapping entry (the bare key
\* under an empty prefix), "[i]" for the i-th item of a sequence.
RECURSIVE KeyPath(_, _, _)
KeyPath(value, prefix, path) ==
    IF path = <<>> THEN prefix
    ELSE LET i == Head(path)
             step == IF value.t = "dict"
                     THEN IF prefix = "" THEN value.items[i][1]
                          ELSE prefix \o "." \o value.items[i][1]
                     ELSE prefix \o "[" \o ToString(i - 1) \o "]"
         IN  KeyPath(ItemAt(value, i), step, Tail(path))

\* path comes before other in the order of the traversal.
RECURSIVE Before(_, _)
Before(path, other) ==
    /\ path # <<>> /\ other # <<>>
    /\ \/ Head(path) < Head(other)
       \/ Head(path) = Head(other) /\ Before(Tail(path), Tail(other))

\* C26: flatten_config(value, prefix) is the reference flattening: its keys
\* are the key paths of the leaves of value (an empty mapping or sequence
\* has no leaf and yields no entry, a value that is a leaf is stored under
\* the prefix), each key appears once and holds the leaf of that key path,
\* the last one in traversal order when several leaves have the same.
C26_FlattenConfigIsTheReferenceFlattening ==
    (called.fn = "flatten_config" /\ called.done) =>
        LET value == called.args[1]
            prefix == called.args[2]
            flat == called.out.value
        IN  /\ DictKeys(flat) = {KeyPath(value, prefix, path) : path \in LeafPaths(value)}
            /\ \A i, j \in DOMAIN flat : flat[i][1] = flat[j][1] => i = j
            /\ \A path \in LeafPaths(value) :
                   (\A other \in LeafPaths(value) :
                        KeyPath(value, prefix, other) = KeyPath(value, prefix, path)
                            => ~Before(path, other))
                   => DictGet(flat, KeyPath(value, prefix, path)) = LeafAt(value, path)

\* A mapping under a prefix with a nested mapping, a list of two items and
\* an empty list.
C26_Witness ==
    /\ called.fn = "flatten_config" /\ called.done
    /\ called.args[1] =
           Dict(<< <<"a", Dict(<< <<"b", Leaf("1")>>, <<"c", Leaf("2")>> >>)>>,
                   <<"d", List(<<Leaf("1"), Leaf("2")>>)>> >>)
    /\ called.args[2] = "provider[0]"
    /\ called.out.value =
           << <<"provider[0].a.b", "1">>, <<"provider[0].a.c", "2">>,
              <<"provider[0].d[0]", "1">>, <<"provider[0].d[1]", "2">> >>

\* C27: the output of flatten_config has exactly one entry per leaf of the
\* input, whatever the keys of its mappings: as many entries as leaves, and
\* no two leaves under the same key path.
C27_OneEntryPerLeaf ==
    (called.fn = "flatten_config" /\ called.done) =>
        LET value == called.args[1]
            prefix == called.args[2]
        IN  /\ Len(called.out.value) = Cardinality(LeafPaths(value))
            /\ \A path, other \in LeafPaths(value) :
                   KeyPath(value, prefix, path) = KeyPath(value, prefix, other)
                       => path = other

=============================================================================
